---- MODULE Spec2Model ----
(***************************************************************************)
(* IAMP Sites Mapping Dashboard: the browser-side pipeline orchestrator of *)
(* hand_sharepoint_dashboard/assets/js/app.js as a state machine.          *)
(*                                                                         *)
(* Text is a sequence of one-character strings, so that trim, toLowerCase  *)
(* and String.includes are computed and not assumed.  A spreadsheet cell   *)
(* is a tagged value.  A JS object is an ordered sequence of <<key, cell>> *)
(* pairs (Object.keys order is insertion order).                           *)
(*                                                                         *)
(* An async handler is split at its awaits: every segment between two      *)
(* awaits is one atomic action (run-to-completion), and an I/O wait is a   *)
(* task in `tasks` that another action completes or fails.                 *)
(***************************************************************************)
EXTENDS Integers, Sequences, FiniteSets, TLC

VARIABLES
  raw,            \* state.raw: normalized records of the active dataset
  filtered,       \* state.filtered
  coordsByPcode,  \* state.coordsByPcode: set of <<pcode, lat, lng>> entries
  coordsMeta,     \* state.coordsMeta
  filters,        \* the module-level filters object
  ui,             \* values of the six filter controls (DOM)
  options,        \* option lists of the four data-driven selects (DOM)
  query,          \* window.location.search, decoded (fixed for the page)
  sourceUrl,      \* state.sourceUrl
  liveMode,       \* state.liveMode
  storedLive,     \* localStorage "liveMode"
  errorCount,     \* state.errorCount
  health,         \* text of #healthMessage, by kind
  apiStatus,      \* text of #apiStatusText, by kind
  overlay,        \* TRUE iff #loadingOverlay is visible
  refreshTimer,   \* state.refreshTimer: id of the interval timer, 0 for null
  refreshEveryMs, \* state.refreshEveryMs, in seconds (ms / 1000)
  refreshMinutes, \* value of the #refreshMinutes input
  timers,         \* the interval timers alive in the browser
  tasks,          \* async handlers suspended at an await
  views,          \* what each view was last rendered from
  boundary,       \* state.mapBoundaryLayer, by name ("" for null)
  booted,         \* TRUE once init() has run
  given,          \* the input of a function studied on its own
  produced,       \* what the page last handed out: clipboard text, download
  tokenCache,     \* api/_lib/graph.js: the module-level tokenCache
  now,            \* Date.now() on the server, in ms
  calls,          \* invocations of the two API handlers, running and answered
  hist            \* history (ghost) record: what the last step was and did

vars == <<raw, filtered, coordsByPcode, coordsMeta, filters, ui, options, query,
          sourceUrl, liveMode, storedLive, errorCount, health, apiStatus,
          overlay, refreshTimer, refreshEveryMs, refreshMinutes, timers, tasks,
          views, boundary, booted, given, produced, tokenCache, now, calls,
          hist>>

(***************************************************************************)
(* Text                                                                    *)
(***************************************************************************)
\* the lower-case letter of every upper-case letter
Lowers ==
  [A |-> "a", B |-> "b", C |-> "c", D |-> "d", E |-> "e", F |-> "f", G |-> "g",
   H |-> "h", I |-> "i", J |-> "j", K |-> "k", L |-> "l", M |-> "m", N |-> "n",
   O |-> "o", P |-> "p", Q |-> "q", R |-> "r", S |-> "s", T |-> "t", U |-> "u",
   V |-> "v", W |-> "w", X |-> "x", Y |-> "y", Z |-> "z"]

\* String.prototype.toLowerCase, one character
LowerChar(c) == IF c \in DOMAIN Lowers THEN Lowers[c] ELSE c

toLowerCase(s) == [i \in 1..Len(s) |-> LowerChar(s[i])] \o <<>>

IsSpace(c) == c = " "

RECURSIVE TrimLeft(_)
TrimLeft(s) ==
  IF Len(s) > 0 /\ IsSpace(s[1]) THEN TrimLeft(Tail(s)) ELSE s

RECURSIVE TrimRight(_)
TrimRight(s) ==
  IF Len(s) > 0 /\ IsSpace(s[Len(s)])
    THEN TrimRight(SubSeq(s, 1, Len(s) - 1))
    ELSE s

\* String.prototype.trim
trim(s) == TrimRight(TrimLeft(s))

\* String.prototype.includes
includes(s, q) ==
  \E i \in 0..(Len(s) - Len(q)) : SubSeq(s, i + 1, i + Len(q)) = q

RECURSIVE JoinWith(_, _)
\* Array.prototype.join
JoinWith(parts, sep) ==
  IF Len(parts) = 0 THEN <<>>
  ELSE IF Len(parts) = 1 THEN parts[1]
  ELSE parts[1] \o sep \o JoinWith(Tail(parts), sep)

DigitChars == <<"0","1","2","3","4","5","6","7","8","9">>

RECURSIVE NatToText(_)
NatToText(n) ==
  IF n < 10 THEN <<DigitChars[n + 1]>>
  ELSE NatToText(n \div 10) \o <<DigitChars[(n % 10) + 1]>>

\* String(n) for an integer
IntToText(n) == IF n < 0 THEN <<"-">> \o NatToText(0 - n) ELSE NatToText(n)

\* literals of the program
ALL          == <<"A","l","l">>
ANY_ISSUE    == <<"A","n","y"," ","i","s","s","u","e">>
NO_ISSUES    == <<"N","o"," ","i","s","s","u","e","s">>
YES          == <<"Y","e","s">>
NO           == <<"N","o">>
EMDASH       == <<"~">>   \* stands for the one-character sentinel U+2014
NOT_RECORDED == <<"N","o","t"," ","r","e","c">>
NOT_ASSESSED == <<"N","o","t"," ","a","s","s">>
ACTIVE       == <<"A","c","t">>

(***************************************************************************)
(* Cells and objects                                                       *)
(***************************************************************************)
Txt(s)   == [t |-> "text", s |-> s, n |-> 0]
Num(k)   == [t |-> "num", s |-> <<>>, n |-> k]
Bool(b)  == [t |-> "bool", s |-> <<>>, n |-> IF b THEN 1 ELSE 0]
List(l)  == [t |-> "list", s |-> l, n |-> 0]
Undef    == [t |-> "undef", s |-> <<>>, n |-> 0]

Has(o, k) == \E i \in 1..Len(o) : o[i][1] = k

\* o[k]
Get(o, k) ==
  IF Has(o, k) THEN o[CHOOSE i \in 1..Len(o) : o[i][1] = k][2] ELSE Undef

\* o[k] = v: an existing key keeps its place, a new key is appended
Put(o, k, v) ==
  IF Has(o, k)
    THEN [i \in 1..Len(o) |-> IF o[i][1] = k THEN <<k, v>> ELSE o[i]]
    ELSE Append(o, <<k, v>>)

\* Object.keys
ObjectKeys(o) == [i \in 1..Len(o) |-> o[i][1]]

\* String(v)
StringOf(v) ==
  CASE v.t = "text" -> v.s
    [] v.t = "num"  -> IntToText(v.n)
    [] v.t = "bool" -> IF v.n = 1 THEN <<"t","r","u","e">> ELSE <<"f","a","l","s","e">>
    [] OTHER        -> <<"u","n","d","e","f","i","n","e","d">>

normText(v) == IF v.t = "undef" THEN <<>> ELSE trim(StringOf(v))

\* a truthy that reads text only
truthyTextOnly(v) ==
  /\ v.t = "text"
  /\ LET s == toLowerCase(normText(v))
     IN s = <<"y","e","s">> \/ s = <<"t","r","u","e">> \/ s = <<"1">>

truthy(v) ==
  \/ v.t = "bool" /\ v.n = 1
  \/ v.t = "num" /\ v.n = 1
  \/ LET s == toLowerCase(normText(v))
     IN s = <<"y","e","s">> \/ s = <<"t","r","u","e">> \/ s = <<"1">>

(***************************************************************************)
(* Value coercion                                                          *)
(***************************************************************************)
IsDigit(c) == \E i \in 1..Len(DigitChars) : DigitChars[i] = c

DigitVal(c) == (CHOOSE i \in 1..Len(DigitChars) : DigitChars[i] = c) - 1

RECURSIVE DigitsToNat(_)
DigitsToNat(s) ==
  IF Len(s) = 0 THEN 0
  ELSE 10 * DigitsToNat(SubSeq(s, 1, Len(s) - 1)) + DigitVal(s[Len(s)])

AllDigits(s) == Len(s) > 0 /\ \A i \in 1..Len(s) : IsDigit(s[i])

NaN == [t |-> "nan", s |-> <<>>, n |-> 0]

\* Number(v) on the cells of the model: integers and integer text; text that
\* is not an optionally signed run of digits is NaN
Number(v) ==
  CASE v.t = "num"  -> v
    [] v.t = "bool" -> Num(v.n)
    [] v.t = "text" ->
         LET s == trim(v.s)
         IN IF s = <<>> THEN Num(0)
            ELSE IF AllDigits(s) THEN Num(DigitsToNat(s))
            ELSE IF s[1] = "-" /\ AllDigits(Tail(s)) THEN Num(0 - DigitsToNat(Tail(s)))
            ELSE NaN
    [] OTHER -> NaN

toNum(v) ==
  IF v.t = "undef" \/ (v.t = "text" /\ v.s = <<>>) THEN Num(0)
  ELSE IF Number(v).t = "num" THEN Number(v) ELSE Num(0)

(***************************************************************************)
(* Configuration                                                           *)
(***************************************************************************)
DEFAULT_SAMPLE_URL  == "assets/data/IAMP_sites_mapping_SAMPLE_REDACTED.xlsx"
API_XLSX_ENDPOINT   == "/api/xlsx"

NUM_FIELDS == <<
  "A- Number of Tents",
  "A1- Number of Households in Tents",
  "A2- Number of Individuals in Tents",
  "B- Number of Self-built Structures with Non-Concrete Roof",
  "B1- Number of Households in Self-built Structures with Non-Concrete Roof",
  "B2- Number of Individuals in Self-built Structures with Non-Concrete Roof",
  "C- Number of Prefab Structure",
  "C1- Number of Households in Prefab Structure",
  "C2- Number of Individuals in Prefab Structure",
  "D- Number of Self-built Structures with Concrete Roof",
  "D1- Number of Households in Self-built Structures with Concrete Roof",
  "D2- Number of Individuals in Self-built Structures with Concrete Roof",
  "Total number of Structures",
  "Total number of Households",
  "Total number of Individuals",
  "Number of Latrines",
  "E1- Number of Households came from Syria",
  "E2- Number of Individuals came from Syria",
  "F1- Number of Households came from Lebanon",
  "F2- Number of Individuals came from Lebanon",
  "G1- Number of Households left to Syria",
  "G2- Number of Individuals left to Syria",
  "QC - Issue count" >>

\* the rules' columns and labels (labels abbreviated to a rule number)
QC_RULES == <<
  [col |-> "QC - Missing assessment date",                    label |-> <<"r","1">>],
  [col |-> "QC - Current phone length",                       label |-> <<"r","2">>],
  [col |-> "QC - Phone status/details mismatch",              label |-> <<"r","3">>],
  [col |-> "QC - Living status/new focal point mismatch",     label |-> <<"r","4">>],
  [col |-> "QC - New focal point missing assessment date",    label |-> <<"r","5">>],
  [col |-> "QC - New FP status/details mismatch",             label |-> <<"r","6">>],
  [col |-> "QC - Record status mismatch",                     label |-> <<"r","7">>],
  [col |-> "QC - Totals mismatch",                            label |-> <<"r","8">>],
  [col |-> "QC - HH size outlier (>10 ind/hh or ind<hh)",     label |-> <<"r","9">>],
  [col |-> "QC - Latrines missing (HH>0 & latrines 0/blank)", label |-> <<"r","1","0">>],
  [col |-> "QC - Latrines > HH",                              label |-> <<"r","1","1">>],
  [col |-> "QC - High population (>500 ind)",                 label |-> <<"r","1","2">>],
  [col |-> "QC - Invalid Site Status",                        label |-> <<"r","1","3">>],
  [col |-> "QC - Invalid PCode format",                       label |-> <<"r","1","4">>] >>

(***************************************************************************)
(* Record normalizer: the body of rows.map in parseWorkbook                *)
(***************************************************************************)
RECURSIVE CoerceNumFields(_, _)
\* for (const f of NUM_FIELDS) obj[f] = toNum(obj[f])
CoerceNumFields(obj, i) ==
  IF i > Len(NUM_FIELDS) THEN obj
  ELSE CoerceNumFields(Put(obj, NUM_FIELDS[i], toNum(Get(obj, NUM_FIELDS[i]))), i + 1)

RECURSIVE QcFlagsFrom(_, _)
QcFlagsFrom(obj, i) ==
  IF i > Len(QC_RULES) THEN <<>>
  ELSE (IF truthy(Get(obj, QC_RULES[i].col)) THEN <<QC_RULES[i].label>> ELSE <<>>)
       \o QcFlagsFrom(obj, i + 1)

RECURSIVE PutAll(_, _)
PutAll(obj, kvs) ==
  IF Len(kvs) = 0 THEN obj ELSE PutAll(Put(obj, kvs[1][1], kvs[1][2]), Tail(kvs))

\* derived fields whose site status is "Not assessed" whenever it is blank
DeriveFieldsBlankSite(obj, phoneStatus, siteStatus, district, cadaster, qcAny) ==
  PutAll(obj, <<
    <<"__assessed",     Bool(phoneStatus # <<>>)>>,
    <<"__siteStatus",   Txt(IF siteStatus # <<>> THEN siteStatus ELSE NOT_ASSESSED)>>,
    <<"__district",     Txt(IF district # <<>> THEN district ELSE EMDASH)>>,
    <<"__cadaster",     Txt(IF cadaster # <<>> THEN cadaster ELSE EMDASH)>>,
    <<"__phoneStatus",  Txt(IF phoneStatus # <<>> THEN phoneStatus ELSE NOT_ASSESSED)>>,
    <<"__qcAny",        Txt(IF qcAny = YES THEN YES ELSE NO)>>,
    <<"__qcIssueCount", toNum(Get(obj, "QC - Issue count"))>>,
    <<"__qcFlags",      List(QcFlagsFrom(obj, 1))>>,
    <<"__search",       Txt(toLowerCase(JoinWith(
                          << normText(Get(obj, "PCode")),
                             normText(Get(obj, "PCode Name")),
                             normText(Get(obj, "Local Name")),
                             district, cadaster >>, <<" ">>)))>> >>)

\* derived fields whose __qcAny is the raw text, whatever it says
DeriveFieldsRawQc(obj, phoneStatus, siteStatus, district, cadaster, qcAny) ==
  PutAll(obj, <<
    <<"__assessed",     Bool(phoneStatus # <<>>)>>,
    <<"__siteStatus",   Txt(IF siteStatus # <<>> THEN siteStatus
                            ELSE IF phoneStatus # <<>> THEN NOT_RECORDED
                            ELSE NOT_ASSESSED)>>,
    <<"__district",     Txt(IF district # <<>> THEN district ELSE EMDASH)>>,
    <<"__cadaster",     Txt(IF cadaster # <<>> THEN cadaster ELSE EMDASH)>>,
    <<"__phoneStatus",  Txt(IF phoneStatus # <<>> THEN phoneStatus ELSE NOT_ASSESSED)>>,
    <<"__qcAny",        Txt(qcAny)>>,
    <<"__qcIssueCount", toNum(Get(obj, "QC - Issue count"))>>,
    <<"__qcFlags",      List(QcFlagsFrom(obj, 1))>>,
    <<"__search",       Txt(toLowerCase(JoinWith(
                          << normText(Get(obj, "PCode")),
                             normText(Get(obj, "PCode Name")),
                             normText(Get(obj, "Local Name")),
                             district, cadaster >>, <<" ">>)))>> >>)

\* the derived fields, from the trimmed texts of the row
DeriveFields(obj, phoneStatus, siteStatus, district, cadaster, qcAny) ==
  PutAll(obj, <<
    <<"__assessed",     Bool(phoneStatus # <<>>)>>,
    <<"__siteStatus",   Txt(IF siteStatus # <<>> THEN siteStatus
                            ELSE IF phoneStatus # <<>> THEN NOT_RECORDED
                            ELSE NOT_ASSESSED)>>,
    <<"__district",     Txt(IF district # <<>> THEN district ELSE EMDASH)>>,
    <<"__cadaster",     Txt(IF cadaster # <<>> THEN cadaster ELSE EMDASH)>>,
    <<"__phoneStatus",  Txt(IF phoneStatus # <<>> THEN phoneStatus ELSE NOT_ASSESSED)>>,
    <<"__qcAny",        Txt(IF qcAny = YES THEN YES ELSE NO)>>,
    <<"__qcIssueCount", toNum(Get(obj, "QC - Issue count"))>>,
    <<"__qcFlags",      List(QcFlagsFrom(obj, 1))>>,
    <<"__search",       Txt(toLowerCase(JoinWith(
                          << normText(Get(obj, "PCode")),
                             normText(Get(obj, "PCode Name")),
                             normText(Get(obj, "Local Name")),
                             district, cadaster >>, <<" ">>)))>> >>)

\* normText(obj["QC - Any issue"]) || "No"
OrNo(qcAnyRaw) == IF qcAnyRaw # <<>> THEN qcAnyRaw ELSE NO

\* the callback once the numeric fields are coerced
NormalizeFields(obj) ==
  DeriveFields(obj,
               normText(Get(obj, "Phone call status")),
               normText(Get(obj, "Site Status")),
               normText(Get(obj, "District")),
               normText(Get(obj, "Cadaster")),
               OrNo(normText(Get(obj, "QC - Any issue"))))

NormalizeRow(r) == NormalizeFields(CoerceNumFields(r, 1))

\* parseWorkbook on the decoded sheet rows (XLSX.read and sheet_to_json are
\* the library's; a workbook they cannot read is the load's "parse" failure)
parseWorkbook(rows) == [i \in 1..Len(rows) |-> NormalizeRow(rows[i])]

(***************************************************************************)
(* Filter engine                                                           *)
(***************************************************************************)
DefaultFilters ==
  [q |-> <<>>, district |-> ALL, cadaster |-> ALL, siteStatus |-> ALL,
   phoneStatus |-> ALL, qc |-> ALL]

\* a filter callback without the "No issues" test
KeepRowNoIssuesIgnored(f, q, r) ==
  IF f.district # ALL /\ Get(r, "__district").s # f.district THEN FALSE
  ELSE IF f.cadaster # ALL /\ Get(r, "__cadaster").s # f.cadaster THEN FALSE
  ELSE IF f.siteStatus # ALL /\ Get(r, "__siteStatus").s # f.siteStatus THEN FALSE
  ELSE IF f.phoneStatus # ALL /\ Get(r, "__phoneStatus").s # f.phoneStatus THEN FALSE
  ELSE IF f.qc = ANY_ISSUE /\ Get(r, "__qcAny").s # YES THEN FALSE
  ELSE IF q # <<>> /\ ~includes(Get(r, "__search").s, q) THEN FALSE
  ELSE TRUE

\* the callback of rows.filter in applyFilters, with its early returns
KeepRow(f, q, r) ==
  IF f.district # ALL /\ Get(r, "__district").s # f.district THEN FALSE
  ELSE IF f.cadaster # ALL /\ Get(r, "__cadaster").s # f.cadaster THEN FALSE
  ELSE IF f.siteStatus # ALL /\ Get(r, "__siteStatus").s # f.siteStatus THEN FALSE
  ELSE IF f.phoneStatus # ALL /\ Get(r, "__phoneStatus").s # f.phoneStatus THEN FALSE
  ELSE IF f.qc = ANY_ISSUE /\ Get(r, "__qcAny").s # YES THEN FALSE
  ELSE IF f.qc = NO_ISSUES /\ Get(r, "__qcAny").s # NO THEN FALSE
  ELSE IF q # <<>> /\ ~includes(Get(r, "__search").s, q) THEN FALSE
  ELSE TRUE

\* a filter that returns the kept records last first
applyFiltersReversed(f, rows) ==
  LET q == toLowerCase(trim(f.q))
      Keep(r) == KeepRow(f, q, r)
      kept == SelectSeq(rows, Keep)
  IN [i \in 1..Len(kept) |-> kept[Len(kept) + 1 - i]]

applyFilters(f, rows) ==
  LET q == toLowerCase(trim(f.q))
      Keep(r) == KeepRow(f, q, r)
  IN SelectSeq(rows, Keep)

(***************************************************************************)
(* Column names as text, for the regular expressions that read them        *)
(***************************************************************************)
KeyText(k) ==
  CASE k = "PCode" -> <<"P","C","o","d","e">>
    [] k = "PCode Name" -> <<"P","C","o","d","e"," ","N","a","m","e">>
    [] k = "Local Name" -> <<"L","o","c","a","l"," ","N","a","m","e">>
    [] k = "District" -> <<"D","i","s","t","r","i","c","t">>
    [] k = "Cadaster" -> <<"C","a","d","a","s","t","e","r">>
    [] k = "Site Status" -> <<"S","i","t","e"," ","S","t","a","t","u","s">>
    [] k = "Phone call status" -> <<"P","h","o","n","e"," ","c","a","l","l"," ","s","t","a","t","u","s">>
    [] k = "QC - Any issue" -> <<"Q","C"," ","-"," ","A","n","y"," ","i","s","s","u","e">>
    [] k = "Latitude" -> <<"L","a","t","i","t","u","d","e">>
    [] k = "Longitude" -> <<"L","o","n","g","i","t","u","d","e">>
    [] k = "GPS X" -> <<"G","P","S"," ","X">>
    [] k = "GPS Y" -> <<"G","P","S"," ","Y">>
    [] k = "P Code" -> <<"P"," ","C","o","d","e">>
    [] k = "Lat" -> <<"L","a","t">>
    [] k = "Lng" -> <<"L","n","g">>
    [] k = "A- Number of Tents" -> <<"A","-"," ","N","u","m","b","e","r"," ","o","f"," ","T","e","n","t","s">>
    [] k = "A1- Number of Households in Tents" -> <<"A","1","-"," ","N","u","m","b","e","r"," ","o","f"," ","H","o","u","s","e","h","o","l","d","s"," ","i","n"," ","T","e","n","t","s">>
    [] k = "A2- Number of Individuals in Tents" -> <<"A","2","-"," ","N","u","m","b","e","r"," ","o","f"," ","I","n","d","i","v","i","d","u","a","l","s"," ","i","n"," ","T","e","n","t","s">>
    [] k = "B- Number of Self-built Structures with Non-Concrete Roof" -> <<"B","-"," ","N","u","m","b","e","r"," ","o","f"," ","S","e","l","f","-","b","u","i","l","t"," ","S","t","r","u","c","t","u","r","e","s"," ","w","i","t","h"," ","N","o","n","-","C","o","n","c","r","e","t","e"," ","R","o","o","f">>
    [] k = "B1- Number of Households in Self-built Structures with Non-Concrete Roof" -> <<"B","1","-"," ","N","u","m","b","e","r"," ","o","f"," ","H","o","u","s","e","h","o","l","d","s"," ","i","n"," ","S","e","l","f","-","b","u","i","l","t"," ","S","t","r","u","c","t","u","r","e","s"," ","w","i","t","h"," ","N","o","n","-","C","o","n","c","r","e","t","e"," ","R","o","o","f">>
    [] k = "B2- Number of Individuals in Self-built Structures with Non-Concrete Roof" -> <<"B","2","-"," ","N","u","m","b","e","r"," ","o","f"," ","I","n","d","i","v","i","d","u","a","l","s"," ","i","n"," ","S","e","l","f","-","b","u","i","l","t"," ","S","t","r","u","c","t","u","r","e","s"," ","w","i","t","h"," ","N","o","n","-","C","o","n","c","r","e","t","e"," ","R","o","o","f">>
    [] k = "C- Number of Prefab Structure" -> <<"C","-"," ","N","u","m","b","e","r"," ","o","f"," ","P","r","e","f","a","b"," ","S","t","r","u","c","t","u","r","e">>
    [] k = "C1- Number of Households in Prefab Structure" -> <<"C","1","-"," ","N","u","m","b","e","r"," ","o","f"," ","H","o","u","s","e","h","o","l","d","s"," ","i","n"," ","P","r","e","f","a","b"," ","S","t","r","u","c","t","u","r","e">>
    [] k = "C2- Number of Individuals in Prefab Structure" -> <<"C","2","-"," ","N","u","m","b","e","r"," ","o","f"," ","I","n","d","i","v","i","d","u","a","l","s"," ","i","n"," ","P","r","e","f","a","b"," ","S","t","r","u","c","t","u","r","e">>
    [] k = "D- Number of Self-built Structures with Concrete Roof" -> <<"D","-"," ","N","u","m","b","e","r"," ","o","f"," ","S","e","l","f","-","b","u","i","l","t"," ","S","t","r","u","c","t","u","r","e","s"," ","w","i","t","h"," ","C","o","n","c","r","e","t","e"," ","R","o","o","f">>
    [] k = "D1- Number of Households in Self-built Structures with Concrete Roof" -> <<"D","1","-"," ","N","u","m","b","e","r"," ","o","f"," ","H","o","u","s","e","h","o","l","d","s"," ","i","n"," ","S","e","l","f","-","b","u","i","l","t"," ","S","t","r","u","c","t","u","r","e","s"," ","w","i","t","h"," ","C","o","n","c","r","e","t","e"," ","R","o","o","f">>
    [] k = "D2- Number of Individuals in Self-built Structures with Concrete Roof" -> <<"D","2","-"," ","N","u","m","b","e","r"," ","o","f"," ","I","n","d","i","v","i","d","u","a","l","s"," ","i","n"," ","S","e","l","f","-","b","u","i","l","t"," ","S","t","r","u","c","t","u","r","e","s"," ","w","i","t","h"," ","C","o","n","c","r","e","t","e"," ","R","o","o","f">>
    [] k = "Total number of Structures" -> <<"T","o","t","a","l"," ","n","u","m","b","e","r"," ","o","f"," ","S","t","r","u","c","t","u","r","e","s">>
    [] k = "Total number of Households" -> <<"T","o","t","a","l"," ","n","u","m","b","e","r"," ","o","f"," ","H","o","u","s","e","h","o","l","d","s">>
    [] k = "Total number of Individuals" -> <<"T","o","t","a","l"," ","n","u","m","b","e","r"," ","o","f"," ","I","n","d","i","v","i","d","u","a","l","s">>
    [] k = "Number of Latrines" -> <<"N","u","m","b","e","r"," ","o","f"," ","L","a","t","r","i","n","e","s">>
    [] k = "E1- Number of Households came from Syria" -> <<"E","1","-"," ","N","u","m","b","e","r"," ","o","f"," ","H","o","u","s","e","h","o","l","d","s"," ","c","a","m","e"," ","f","r","o","m"," ","S","y","r","i","a">>
    [] k = "E2- Number of Individuals came from Syria" -> <<"E","2","-"," ","N","u","m","b","e","r"," ","o","f"," ","I","n","d","i","v","i","d","u","a","l","s"," ","c","a","m","e"," ","f","r","o","m"," ","S","y","r","i","a">>
    [] k = "F1- Number of Households came from Lebanon" -> <<"F","1","-"," ","N","u","m","b","e","r"," ","o","f"," ","H","o","u","s","e","h","o","l","d","s"," ","c","a","m","e"," ","f","r","o","m"," ","L","e","b","a","n","o","n">>
    [] k = "F2- Number of Individuals came from Lebanon" -> <<"F","2","-"," ","N","u","m","b","e","r"," ","o","f"," ","I","n","d","i","v","i","d","u","a","l","s"," ","c","a","m","e"," ","f","r","o","m"," ","L","e","b","a","n","o","n">>
    [] k = "G1- Number of Households left to Syria" -> <<"G","1","-"," ","N","u","m","b","e","r"," ","o","f"," ","H","o","u","s","e","h","o","l","d","s"," ","l","e","f","t"," ","t","o"," ","S","y","r","i","a">>
    [] k = "G2- Number of Individuals left to Syria" -> <<"G","2","-"," ","N","u","m","b","e","r"," ","o","f"," ","I","n","d","i","v","i","d","u","a","l","s"," ","l","e","f","t"," ","t","o"," ","S","y","r","i","a">>
    [] k = "QC - Issue count" -> <<"Q","C"," ","-"," ","I","s","s","u","e"," ","c","o","u","n","t">>
    [] k = "QC - Missing assessment date" -> <<"Q","C"," ","-"," ","M","i","s","s","i","n","g"," ","a","s","s","e","s","s","m","e","n","t"," ","d","a","t","e">>
    [] k = "QC - Current phone length" -> <<"Q","C"," ","-"," ","C","u","r","r","e","n","t"," ","p","h","o","n","e"," ","l","e","n","g","t","h">>
    [] k = "QC - Phone status/details mismatch" -> <<"Q","C"," ","-"," ","P","h","o","n","e"," ","s","t","a","t","u","s","/","d","e","t","a","i","l","s"," ","m","i","s","m","a","t","c","h">>
    [] k = "QC - Living status/new focal point mismatch" -> <<"Q","C"," ","-"," ","L","i","v","i","n","g"," ","s","t","a","t","u","s","/","n","e","w"," ","f","o","c","a","l"," ","p","o","i","n","t"," ","m","i","s","m","a","t","c","h">>
    [] k = "QC - New focal point missing assessment date" -> <<"Q","C"," ","-"," ","N","e","w"," ","f","o","c","a","l"," ","p","o","i","n","t"," ","m","i","s","s","i","n","g"," ","a","s","s","e","s","s","m","e","n","t"," ","d","a","t","e">>
    [] k = "QC - New FP status/details mismatch" -> <<"Q","C"," ","-"," ","N","e","w"," ","F","P"," ","s","t","a","t","u","s","/","d","e","t","a","i","l","s"," ","m","i","s","m","a","t","c","h">>
    [] k = "QC - Record status mismatch" -> <<"Q","C"," ","-"," ","R","e","c","o","r","d"," ","s","t","a","t","u","s"," ","m","i","s","m","a","t","c","h">>
    [] k = "QC - Totals mismatch" -> <<"Q","C"," ","-"," ","T","o","t","a","l","s"," ","m","i","s","m","a","t","c","h">>
    [] k = "QC - HH size outlier (>10 ind/hh or ind<hh)" -> <<"Q","C"," ","-"," ","H","H"," ","s","i","z","e"," ","o","u","t","l","i","e","r"," ","(",">","1","0"," ","i","n","d","/","h","h"," ","o","r"," ","i","n","d","<","h","h",")">>
    [] k = "QC - Latrines missing (HH>0 & latrines 0/blank)" -> <<"Q","C"," ","-"," ","L","a","t","r","i","n","e","s"," ","m","i","s","s","i","n","g"," ","(","H","H",">","0"," ","&"," ","l","a","t","r","i","n","e","s"," ","0","/","b","l","a","n","k",")">>
    [] k = "QC - Latrines > HH" -> <<"Q","C"," ","-"," ","L","a","t","r","i","n","e","s"," ",">"," ","H","H">>
    [] k = "QC - High population (>500 ind)" -> <<"Q","C"," ","-"," ","H","i","g","h"," ","p","o","p","u","l","a","t","i","o","n"," ","(",">","5","0","0"," ","i","n","d",")">>
    [] k = "QC - Invalid Site Status" -> <<"Q","C"," ","-"," ","I","n","v","a","l","i","d"," ","S","i","t","e"," ","S","t","a","t","u","s">>
    [] k = "QC - Invalid PCode format" -> <<"Q","C"," ","-"," ","I","n","v","a","l","i","d"," ","P","C","o","d","e"," ","f","o","r","m","a","t">>
    [] k = "__assessed" -> <<"_","_","a","s","s","e","s","s","e","d">>
    [] k = "__siteStatus" -> <<"_","_","s","i","t","e","S","t","a","t","u","s">>
    [] k = "__district" -> <<"_","_","d","i","s","t","r","i","c","t">>
    [] k = "__cadaster" -> <<"_","_","c","a","d","a","s","t","e","r">>
    [] k = "__phoneStatus" -> <<"_","_","p","h","o","n","e","S","t","a","t","u","s">>
    [] k = "__qcAny" -> <<"_","_","q","c","A","n","y">>
    [] k = "__qcIssueCount" -> <<"_","_","q","c","I","s","s","u","e","C","o","u","n","t">>
    [] k = "__qcFlags" -> <<"_","_","q","c","F","l","a","g","s">>
    [] k = "__search" -> <<"_","_","s","e","a","r","c","h">>
    [] OTHER -> <<>>

(***************************************************************************)
(* Coordinate inference                                                    *)
(***************************************************************************)
NULL == "<null>"

\* the characters the loose parse keeps after replacing "," by ".":
\* /[^0-9.+\-]/g removed
CleanChar(c) == IF c = "," THEN "." ELSE c

KeepChar(c) == IsDigit(c) \/ c = "." \/ c = "+" \/ c = "-"

RECURSIVE CleanLoose(_)
\* .replace(/,/g, ".").replace(/[^0-9.+\-]/g, "")
CleanLoose(s) ==
  IF Len(s) = 0 THEN <<>>
  ELSE (IF KeepChar(CleanChar(s[1])) THEN <<CleanChar(s[1])>> ELSE <<>>)
       \o CleanLoose(Tail(s))

RECURSIVE DropPlus(_)
\* .replace(/(\+)(?=.)/g, ""): a "+" that is not the last character goes
DropPlus(s) ==
  IF Len(s) = 0 THEN <<>>
  ELSE IF s[1] = "+" /\ Len(s) > 1 THEN DropPlus(Tail(s))
  ELSE <<s[1]>> \o DropPlus(Tail(s))

RECURSIVE DigitRuns(_, _)
\* the number of maximal runs of digits in s (inDigits: the previous
\* character was a digit)
DigitRuns(s, inDigits) ==
  IF Len(s) = 0 THEN 0
  ELSE IF IsDigit(s[1])
    THEN (IF inDigits THEN 0 ELSE 1) + DigitRuns(Tail(s), TRUE)
    ELSE DigitRuns(Tail(s), FALSE)

\* parseCoordinate on the cells of the model: integer numbers, and text with
\* fewer than three runs of digits (the degrees-minutes-seconds pattern needs
\* three) and no decimal part.  The result is a "num" cell or NaN.
parseCoordinate(v) ==
  IF v.t = "undef" \/ (v.t = "text" /\ v.s = <<>>) THEN NaN
  ELSE IF v.t = "num" THEN v
  ELSE LET rawText == trim(StringOf(v))
       IN IF rawText = <<>> THEN NaN
          ELSE Number(Txt(DropPlus(CleanLoose(rawText))))

IsFinite(v) == v.t = "num"

\* /pat/i.test(k) for a literal pattern
TestI(pat, k) == includes(toLowerCase(KeyText(k)), pat)

\* /p\s*code/i.test(k): "p", any run of spaces, "code"
RECURSIVE PThenCode(_)
PThenCode(s) ==
  IF Len(s) = 0 THEN FALSE
  ELSE IF IsSpace(s[1]) THEN PThenCode(Tail(s))
  ELSE Len(s) >= 4 /\ SubSeq(s, 1, 4) = <<"c","o","d","e">>

TestPCode(k) ==
  LET s == toLowerCase(KeyText(k))
  IN \E i \in 1..Len(s) : s[i] = "p" /\ PThenCode(SubSeq(s, i + 1, Len(s)))

\* Array.prototype.find, given the elements that satisfy the test in their
\* order: the first of them, or none
FirstOf(found, none) == IF Len(found) > 0 THEN found[1] ELSE none

inferPcodeKey(keys) ==
  LET IsExact(k) == toLowerCase(trim(KeyText(k))) = <<"p","c","o","d","e">>
      IsFuzzy(k) == TestPCode(k) \/ TestI(<<"p","c","o","d","e">>, k)
      exact == FirstOf(SelectSeq(keys, IsExact), NULL)
      fuzzy == FirstOf(SelectSeq(keys, IsFuzzy), NULL)
  IN IF exact # NULL THEN exact
     ELSE IF fuzzy # NULL THEN fuzzy ELSE "PCode"

SAMPLE_ROWS == 1200

Min(a, b) == IF a < b THEN a ELSE b

\* scoreKeyInRange: the fraction ok/valid as the pair <<ok, valid>>, and
\* <<0, 1>> for the score 0 of a column with nothing valid.  min10 and max10
\* are the band's ends times ten (32.0 is 320, 35.9 is 359).
scoreKeyInRange(rows, key, min10, max10) ==
  LET sampleN == Min(SAMPLE_ROWS, Len(rows))
      Valid == {i \in 1..sampleN : IsFinite(parseCoordinate(Get(rows[i], key)))}
      Ok    == {i \in Valid :
                  LET v == parseCoordinate(Get(rows[i], key)).n
                  IN 10 * v >= min10 /\ 10 * v <= max10}
  IN IF Cardinality(Valid) = 0 THEN <<0, 1>>
     ELSE <<Cardinality(Ok), Cardinality(Valid)>>

\* a.s - b.s for two fractions: its sign
ScoreLess(a, b) == a[1] * b[2] < b[1] * a[2]

\* score >= pct / 100
ScoreAtLeast(a, pct) == 100 * a[1] >= pct * a[2]

RECURSIVE InsertDesc(_, _)
\* x into a sequence of {k, s} sorted by descending score s, after its equals
InsertDesc(sorted, x) ==
  IF Len(sorted) = 0 THEN <<x>>
  ELSE IF ScoreLess(sorted[1].s, x.s) THEN <<x>> \o sorted
  ELSE <<sorted[1]>> \o InsertDesc(Tail(sorted), x)

RECURSIVE SortDescFrom(_, _, _)
SortDescFrom(seq, i, acc) ==
  IF i > Len(seq) THEN acc
  ELSE SortDescFrom(seq, i + 1, InsertDesc(acc, seq[i]))

\* [...seq].sort((a, b) => b.s - a.s); Array.prototype.sort is stable
SortDesc(seq) == SortDescFrom(seq, 1, <<>>)

LAT_MIN10 == 320
LAT_MAX10 == 359
LNG_MIN10 == 340
LNG_MAX10 == 379
STAT_PCT  == 65
NAME_PCT  == 25

\* the score of key k in a scored list
ScoreIn(scored, k) == scored[CHOOSE i \in 1..Len(scored) : scored[i].k = k].s

\* a pickBestNamed that takes the best name match whatever its score
pickBestNamedAny(arr, scored) ==
  IF Len(arr) = 0 THEN NULL
  ELSE SortDesc([i \in 1..Len(arr) |->
                   [k |-> arr[i], s |-> ScoreIn(scored, arr[i])]])[1].k

\* pickBestNamed(arr, scoreProp), with the scored list of that property
pickBestNamed(arr, scored) ==
  IF Len(arr) = 0 THEN NULL
  ELSE LET ranked == SortDesc([i \in 1..Len(arr) |->
                                 [k |-> arr[i], s |-> ScoreIn(scored, arr[i])]])
       IN IF ScoreAtLeast(ranked[1].s, NAME_PCT) THEN ranked[1].k ELSE NULL

NoneScored == [k |-> NULL, s |-> <<0, 1>>]

GoodLat(x) == ScoreAtLeast(x.s, STAT_PCT)

GoodLng(x, bestLat) ==
  ScoreAtLeast(x.s, STAT_PCT) /\ (bestLat.k = NULL \/ x.k # bestLat.k)

\* the end of inferLatLngKeys, from bestLat and bestLng on
PickKeys(pcodeKey, namedLat, namedLng, bestLat, bestLng) ==
  [pcodeKey |-> pcodeKey,
   latKey |-> IF namedLat # NULL THEN namedLat ELSE bestLat.k,
   lngKey |-> IF namedLng # NULL THEN namedLng ELSE bestLng.k]

BestLng(byLng, bestLat) ==
  LET Good(x) == GoodLng(x, bestLat) IN FirstOf(SelectSeq(byLng, Good), NoneScored)

\* inferLatLngKeys once every key is scored for both bands
InferFromScores(keys, latScored, lngScored) ==
  LET IsNameLat(k) == TestI(<<"l","a","t">>, k) /\ ~TestI(<<"l","a","t","r","i","n","e">>, k)
      IsNameLng(k) == TestI(<<"l","o","n">>, k) \/ TestI(<<"l","n","g">>, k)
      bestLat == FirstOf(SelectSeq(SortDesc(latScored), GoodLat), NoneScored)
  IN PickKeys(inferPcodeKey(keys),
              pickBestNamed(SelectSeq(keys, IsNameLat), latScored),
              pickBestNamed(SelectSeq(keys, IsNameLng), lngScored),
              bestLat,
              BestLng(SortDesc(lngScored), bestLat))

\* (\o <<>>: the list as a tuple, every score computed once)
ScoreKeys(rows, keys, min10, max10) ==
  [i \in 1..Len(keys) |->
     [k |-> keys[i], s |-> scoreKeyInRange(rows, keys[i], min10, max10)]] \o <<>>

InferWithKeys(rows, keys) ==
  InferFromScores(keys, ScoreKeys(rows, keys, LAT_MIN10, LAT_MAX10),
                        ScoreKeys(rows, keys, LNG_MIN10, LNG_MAX10))

inferLatLngKeys(rows) ==
  IF Len(rows) = 0 THEN [pcodeKey |-> "PCode", latKey |-> NULL, lngKey |-> NULL]
  ELSE InferWithKeys(rows, ObjectKeys(rows[1]))

(***************************************************************************)
(* Inputs of the model                                                     *)
(***************************************************************************)
SheetRow(pcode, district, site, phone, qc, lat, lng) ==
  << <<"PCode", Txt(pcode)>>, <<"District", Txt(district)>>,
     <<"Cadaster", Txt(<<>>)>>, <<"Site Status", Txt(site)>>,
     <<"Phone call status", Txt(phone)>>, <<"QC - Any issue", Txt(qc)>>,
     <<"Latitude", lat>>, <<"Longitude", lng>> >>

\* the decoded sheets a file or a URL can hold
WorkbookA ==
  << SheetRow(<<"1">>, <<"B">>, ACTIVE, <<"A","n","s">>, YES, Num(33), Num(35)),
     SheetRow(<<"2">>, <<"T">>, <<>>, <<>>, NO, Txt(<<>>), Txt(<<>>)) >>

WorkbookB ==
  << SheetRow(<<"1">>, <<"B">>, <<>>, <<"A","n","s">>, <<>>, Num(34), Num(36)),
     SheetRow(<<"3">>, <<" ","B"," ">>, ACTIVE, <<>>, YES, Num(34), Num(37)) >>

Workbooks == {WorkbookA, WorkbookB}

MANUAL_URL == "https://example.org/sites.xlsx"

\* what the user types into the search box
QInputs == { <<" ","B">> }

NoQuery ==
  [q |-> <<>>, district |-> <<>>, cadaster |-> <<>>, siteStatus |-> <<>>,
   phoneStatus |-> <<>>, qc |-> <<>>, live |-> <<>>, noLive |-> <<>>,
   noSample |-> <<>>]

\* the query strings the page is opened with
Queries ==
  { NoQuery,
    [NoQuery EXCEPT !.noSample = <<"1">>, !.district = <<"T">>, !.q = <<"2">>] }

\* the values of the #refreshMinutes input
RefreshInputs == { Txt(<<>>), Txt(<<"2">>), Txt(<<"3","5","7","9","2">>) }

MaxLoads    == 2   \* asynchronous handlers started in one run
MaxInFlight == 2   \* handlers suspended at an await at one time
MaxErrors   == 2   \* consecutive failures counted by state.errorCount
MaxGestures == 1   \* synchronous user gestures in one run

(***************************************************************************)
(* Evaluation tables: parseWorkbook and inferLatLngKeys on the workbooks   *)
(* of the model, computed once                                             *)
(***************************************************************************)
ParsedTable == [w \in Workbooks \cup {<<>>} |-> parseWorkbook(w)]

\* parseWorkbook(sheet), looked up
Parsed(sheet) == ParsedTable[sheet]

InferTable == [w \in Workbooks \cup {<<>>} |-> inferLatLngKeys(parseWorkbook(w))]

\* the sheet a record sequence was parsed from
SheetOf(rows) == CHOOSE w \in Workbooks \cup {<<>>} : ParsedTable[w] = rows

\* inferLatLngKeys(rows), looked up
Inferred(rows) == InferTable[SheetOf(rows)]

RECURSIVE CoordsLoopKeepFirst(_, _, _, _)
\* a loop that leaves an identifier it has already stored as it is
CoordsLoopKeepFirst(rows, i, meta, acc) ==
  IF i > Len(rows) THEN acc
  ELSE
  LET r == rows[i]
      cell == IF Get(r, meta.pcodeKey).t # "undef" THEN Get(r, meta.pcodeKey)
              ELSE IF Get(r, "PCode").t # "undef" THEN Get(r, "PCode")
              ELSE Txt(<<>>)
      p   == trim(StringOf(cell))
      lat == parseCoordinate(Get(r, meta.latKey))
      lng == parseCoordinate(Get(r, meta.lngKey))
  IN IF p = <<>> \/ ~IsFinite(lat) \/ ~IsFinite(lng) \/ Has(acc.mp, p)
       THEN CoordsLoopKeepFirst(rows, i + 1, meta, acc)
       ELSE CoordsLoopKeepFirst(rows, i + 1, meta,
              [mp |-> Put(acc.mp, p, [lat |-> lat.n, lng |-> lng.n]),
               mapped |-> acc.mapped + 1])

RECURSIVE CoordsLoop(_, _, _, _)
\* the for loop of buildCoordsMapFromRows: acc is [mp, mapped]
CoordsLoop(rows, i, meta, acc) ==
  IF i > Len(rows) THEN acc
  ELSE
  LET r == rows[i]
      cell == IF Get(r, meta.pcodeKey).t # "undef" THEN Get(r, meta.pcodeKey)
              ELSE IF Get(r, "PCode").t # "undef" THEN Get(r, "PCode")
              ELSE Txt(<<>>)
      p   == trim(StringOf(cell))
      lat == parseCoordinate(Get(r, meta.latKey))
      lng == parseCoordinate(Get(r, meta.lngKey))
  IN IF p = <<>> \/ ~IsFinite(lat) \/ ~IsFinite(lng)
       THEN CoordsLoop(rows, i + 1, meta, acc)
       ELSE CoordsLoop(rows, i + 1, meta,
              [mp |-> Put(acc.mp, p, [lat |-> lat.n, lng |-> lng.n]),
               mapped |-> acc.mapped + 1])

InitialCoordsMeta ==
  [source |-> "sheet", pcodeKey |-> "PCode", latKey |-> NULL, lngKey |-> NULL,
   mapped |-> 0, total |-> 0]

\* {...state.coordsMeta, ...meta, mapped, total}
SpreadMeta(prevMeta, meta, mapped, total) ==
  [prevMeta EXCEPT !.pcodeKey = meta.pcodeKey, !.latKey = meta.latKey,
                   !.lngKey = meta.lngKey, !.mapped = mapped, !.total = total]

\* the result of buildCoordsMapFromRows from the result of its loop
CoordsResult(prevMeta, rows, meta, res) ==
  [mp |-> res.mp, meta |-> SpreadMeta(prevMeta, meta, res.mapped, Len(rows))]

\* a buildCoordsMapFromRows that reads "Latitude" and "Longitude" when an
\* axis was not resolved
buildCoordsGuessing(prevMeta, rows, meta) ==
  LET guess == [meta EXCEPT
                  !.latKey = IF @ = NULL THEN "Latitude" ELSE @,
                  !.lngKey = IF @ = NULL THEN "Longitude" ELSE @]
      res == CoordsLoop(rows, 1, guess, [mp |-> <<>>, mapped |-> 0])
  IN [mp |-> res.mp, meta |-> SpreadMeta(prevMeta, meta, res.mapped, Len(rows))]

\* buildCoordsMapFromRows once the keys are inferred
buildCoordsWith(prevMeta, rows, meta) ==
  IF meta.latKey = NULL \/ meta.lngKey = NULL
    THEN [mp |-> <<>>, meta |-> SpreadMeta(prevMeta, meta, 0, Len(rows))]
    ELSE CoordsResult(prevMeta, rows, meta,
                      CoordsLoop(rows, 1, meta, [mp |-> <<>>, mapped |-> 0]))

\* buildCoordsMapFromRows; prevMeta is state.coordsMeta, spread first
buildCoordsMapFromRows(prevMeta, rows) ==
  buildCoordsWith(prevMeta, rows, Inferred(rows))

(***************************************************************************)
(* The program state as one record, and the functions of app.js as         *)
(* functions from state to state                                           *)
(***************************************************************************)
S ==
  [raw |-> raw, filtered |-> filtered, coordsByPcode |-> coordsByPcode,
   coordsMeta |-> coordsMeta, filters |-> filters, ui |-> ui,
   options |-> options, query |-> query, sourceUrl |-> sourceUrl,
   liveMode |-> liveMode, storedLive |-> storedLive, errorCount |-> errorCount,
   health |-> health, apiStatus |-> apiStatus, overlay |-> overlay,
   refreshTimer |-> refreshTimer, refreshEveryMs |-> refreshEveryMs,
   refreshMinutes |-> refreshMinutes, timers |-> timers, tasks |-> tasks,
   views |-> views, boundary |-> boundary, booted |-> booted, given |-> given,
   produced |-> produced, tokenCache |-> tokenCache, now |-> now,
   calls |-> calls, hist |-> hist]

Commit(st) ==
  /\ raw' = st.raw
  /\ filtered' = st.filtered
  /\ coordsByPcode' = st.coordsByPcode
  /\ coordsMeta' = st.coordsMeta
  /\ filters' = st.filters
  /\ ui' = st.ui
  /\ options' = st.options
  /\ query' = st.query
  /\ sourceUrl' = st.sourceUrl
  /\ liveMode' = st.liveMode
  /\ storedLive' = st.storedLive
  /\ errorCount' = st.errorCount
  /\ health' = st.health
  /\ apiStatus' = st.apiStatus
  /\ overlay' = st.overlay
  /\ refreshTimer' = st.refreshTimer
  /\ refreshEveryMs' = st.refreshEveryMs
  /\ refreshMinutes' = st.refreshMinutes
  /\ timers' = st.timers
  /\ tasks' = st.tasks
  /\ views' = st.views
  /\ boundary' = st.boundary
  /\ booted' = st.booted
  /\ given' = st.given
  /\ produced' = st.produced
  /\ tokenCache' = st.tokenCache
  /\ now' = st.now
  /\ calls' = st.calls
  /\ hist' = st.hist

NoView == [by |-> "none", rows |-> <<>>]

\* no token: tokenCache.accessToken is null
NoToken == [id |-> 0, at |-> 0, expiresIn |-> Undef]

\* let tokenCache = { accessToken: null, expiresAtMs: 0 }
EmptyTokenCache == [accessToken |-> NoToken, expiresAtMs |-> 0]

InitialHist ==
  [op |-> "init",      \* what the last step was: "boot", "start", "step",
                       \* "loaded", "failed", "refused", "filter", "reset",
                       \* "render", "other"
   kind |-> "",        \* the kind of the task it belonged to ("": none)
   started |-> 0,      \* asynchronous handlers started so far
   gestures |-> 0,     \* synchronous user gestures so far
   edited |-> FALSE,   \* the user has edited a filter control or pressed Reset
   rawLoad |-> 0,      \* the load state.raw comes from
   coordsLoad |-> 0,   \* the load the coordinate index comes from
   filteredLoad |-> 0, \* the load state.filtered was computed from
   render |-> <<0, 0, 0>>, \* the three loads the last view render read
   inferRuns |-> 0,    \* runs of inferLatLngKeys
   loadsDone |-> 0,    \* loads that reached onDataLoaded
   lastDone |-> 0,     \* the load whose I/O completed last, successfully
   lastSheet |-> <<>>] \* the sheet that load read

Init ==
  /\ raw = <<>>
  /\ filtered = <<>>
  /\ coordsByPcode = <<>>
  /\ coordsMeta = InitialCoordsMeta
  /\ filters = DefaultFilters
  /\ ui = DefaultFilters
  /\ options = [district |-> {}, cadaster |-> {}, siteStatus |-> {}, phoneStatus |-> {}]
  /\ query \in Queries
  /\ sourceUrl = ""
  /\ liveMode = FALSE
  /\ storedLive \in BOOLEAN
  /\ errorCount = 0
  /\ health = "-"
  /\ apiStatus = "-"
  /\ overlay = FALSE
  /\ refreshTimer = 0
  /\ refreshEveryMs = 0
  /\ refreshMinutes = Txt(<<>>)
  /\ timers = {}
  /\ tasks = {}
  /\ views = [kpis |-> NoView, charts |-> NoView, qc |-> NoView,
              table |-> NoView, map |-> NoView]
  /\ boundary = ""
  /\ booted = FALSE
  /\ given = <<>>
  /\ produced = <<>>
  /\ tokenCache = EmptyTokenCache
  /\ now = 0
  /\ calls = {}
  /\ hist = InitialHist

Did(st, op, kind) == [st EXCEPT !.hist.op = op, !.hist.kind = kind]

setHealth(st, message) == [st EXCEPT !.health = message]

showLoading(st) == [st EXCEPT !.overlay = TRUE]

hideLoading(st) == [st EXCEPT !.overlay = FALSE]

setLiveUi(st, enabled) == [st EXCEPT !.liveMode = enabled]

setApiStatus(st, msg) == [st EXCEPT !.apiStatus = msg]

(***************************************************************************)
(* Filters                                                                 *)
(***************************************************************************)
Column(rows, k) == {Get(rows[i], k).s : i \in 1..Len(rows)}

\* uniqSorted, as the set of its values (the order of the options is display)
uniqSorted(values) == {v \in values : v # <<>> /\ v # EMDASH}

\* populateFilterControls: the option lists are rebuilt, and a select whose
\* options were replaced shows its first option, "All"
populateFilterControls(st, rows) ==
  [st EXCEPT
     !.options = [district    |-> uniqSorted(Column(rows, "__district")),
                  cadaster    |-> uniqSorted(Column(rows, "__cadaster")),
                  siteStatus  |-> uniqSorted(Column(rows, "__siteStatus")),
                  phoneStatus |-> uniqSorted(Column(rows, "__phoneStatus"))],
     !.ui = [@ EXCEPT !.district = ALL, !.cadaster = ALL, !.siteStatus = ALL,
                      !.phoneStatus = ALL, !.qc = ALL]]

QcOptions == {ALL, ANY_ISSUE, NO_ISSUES}

\* select.value = v: the option with that value is selected, or none is
\* (and the select's value reads "")
SelectValue(opts, v) == IF v \in opts \cup {ALL} THEN v ELSE <<>>

OrAll(v) == IF v # <<>> THEN v ELSE ALL

readFiltersFromUI(st) ==
  [st EXCEPT
     !.filters = [q           |-> trim(st.ui.q),
                  district    |-> OrAll(st.ui.district),
                  cadaster    |-> OrAll(st.ui.cadaster),
                  siteStatus  |-> OrAll(st.ui.siteStatus),
                  phoneStatus |-> OrAll(st.ui.phoneStatus),
                  qc          |-> OrAll(st.ui.qc)]]

applyQueryToFilters(st) ==
  LET p == st.query
      o == st.options
      u == st.ui
  IN readFiltersFromUI(
       [st EXCEPT !.ui =
          [q           |-> IF p.q # <<>> THEN p.q ELSE u.q,
           district    |-> IF p.district # <<>>
                             THEN SelectValue(o.district, p.district) ELSE u.district,
           cadaster    |-> IF p.cadaster # <<>>
                             THEN SelectValue(o.cadaster, p.cadaster) ELSE u.cadaster,
           siteStatus  |-> IF p.siteStatus # <<>>
                             THEN SelectValue(o.siteStatus, p.siteStatus) ELSE u.siteStatus,
           phoneStatus |-> IF p.phoneStatus # <<>>
                             THEN SelectValue(o.phoneStatus, p.phoneStatus) ELSE u.phoneStatus,
           qc          |-> IF p.qc # <<>>
                             THEN SelectValue(QcOptions \ {ALL}, p.qc) ELSE u.qc]])

setCoords(st, built) ==
  [st EXCEPT !.coordsByPcode = built.mp, !.coordsMeta = built.meta,
             !.hist.coordsLoad = st.hist.rawLoad,
             !.hist.inferRuns = @ + 1]

setCoordsFromSpreadsheet(st, rows) ==
  setCoords(st, buildCoordsMapFromRows(st.coordsMeta, rows))

\* updateMap(rows): reads the coordinate index
updateMap(st, rows, by) ==
  [st EXCEPT
     !.views.map = [by |-> by, rows |-> rows],
     !.hist.render = <<st.hist.rawLoad, st.hist.coordsLoad, st.hist.filteredLoad>>]

\* updateKPIs, updateCharts, updateQC, updateTable: each reads state.filtered
renderViews(st) ==
  LET v == [by |-> "updateAll", rows |-> st.filtered]
  IN [st EXCEPT !.views.kpis = v, !.views.charts = v, !.views.qc = v,
                !.views.table = v,
                !.hist.render = <<st.hist.rawLoad, st.hist.coordsLoad,
                                  st.hist.filteredLoad>>]

\* state.filtered = out
setFiltered(st, out) ==
  [st EXCEPT !.filtered = out, !.hist.filteredLoad = st.hist.rawLoad]

\* an update that renders without recomputing state.filtered
updateAllStale(st) == updateMap(renderViews(st), st.filtered, "updateAll")

\* updateAll after readFiltersFromUI
updateAllFrom(st) ==
  updateMap(renderViews(setFiltered(st, applyFilters(st.filters, st.raw))),
            applyFilters(st.filters, st.raw), "updateAll")

\* an update that rebuilds the coordinate index too
updateAllRebuilding(st) ==
  updateAllFrom(readFiltersFromUI(setCoordsFromSpreadsheet(st, st.raw)))

updateAll(st) == updateAllFrom(readFiltersFromUI(st))

resetFilters(st) ==
  updateAll(readFiltersFromUI([st EXCEPT !.ui = DefaultFilters]))

(***************************************************************************)
(* Update pipeline                                                         *)
(***************************************************************************)
\* a pipeline that renders before the coordinate index is rebuilt
onDataLoadedRenderFirst(st, rows, id) ==
  setCoordsFromSpreadsheet(
    updateAll(
      applyQueryToFilters(
        populateFilterControls(
          setHealth([st EXCEPT !.raw = rows, !.errorCount = 0,
                               !.hist.rawLoad = id, !.hist.loadsDone = @ + 1],
                    "Loaded successfully."),
          rows))),
    rows)

\* a pipeline that drops the result of a load started before the active one
onDataLoadedNewestOnly(st, rows, id) ==
  IF id < st.hist.rawLoad THEN st
  ELSE
  updateAll(
    applyQueryToFilters(
      populateFilterControls(
        setCoordsFromSpreadsheet(
          setHealth([st EXCEPT !.raw = rows, !.errorCount = 0,
                               !.hist.rawLoad = id, !.hist.loadsDone = @ + 1],
                    "Loaded successfully."),
          rows),
        rows)))

\* onDataLoaded(rows, ...) at the end of load `id`
onDataLoaded(st, rows, id) ==
  updateAll(
    applyQueryToFilters(
      populateFilterControls(
        setCoordsFromSpreadsheet(
          setHealth([st EXCEPT !.raw = rows, !.errorCount = 0,
                               !.hist.rawLoad = id, !.hist.loadsDone = @ + 1],
                    "Loaded successfully."),
          rows),
        rows)))

(***************************************************************************)
(* Auto refresh                                                            *)
(***************************************************************************)
Max(a, b) == IF a > b THEN a ELSE b

\* the id setInterval returns: one no live timer has
FreshTimerId(st) ==
  CHOOSE i \in 1..(Cardinality(st.timers) + 1) : \A t \in st.timers : t.id # i

\* clearInterval(id)
clearInterval(set, id) == {t \in set : t.id # id}

\* the largest delay, in whole seconds, that is below 2^31 ms
MAX_DELAY_SECS == 2147483

\* the delay setInterval(handler, timeout) runs with, in seconds: timeout is
\* converted to a signed 32-bit integer, and a delay from 2^31 ms up to 2^32
\* ms comes out negative and is taken as 0 (the callback runs back to back)
setIntervalDelay(secs) == IF secs <= MAX_DELAY_SECS THEN secs ELSE 0

applyRefresh(st) ==
  LET mins == toNum(st.refreshMinutes).n
  IN IF st.sourceUrl = ""
       THEN [st EXCEPT !.refreshEveryMs = 0,
                       !.timers = IF st.refreshTimer # 0
                                    THEN clearInterval(@, st.refreshTimer) ELSE @,
                       !.refreshTimer = 0]
       ELSE LET ms == Max(1, mins) * 60   \* Math.max(1, mins) * 60 * 1000 ms
                id == FreshTimerId(st)
            IN [st EXCEPT
                  !.refreshEveryMs = ms,
                  !.timers = (IF st.refreshTimer # 0
                                THEN clearInterval(@, st.refreshTimer) ELSE @)
                             \cup {[id |-> id, ms |-> setIntervalDelay(ms),
                                    url |-> st.sourceUrl]},
                  !.refreshTimer = id]

(***************************************************************************)
(* Data loading.  A task is a handler suspended at an await:               *)
(*   id    the load's number (the order in which handlers were started)    *)
(*   kind  the handler: "file", "url", "sample", "tick", "live", "reload", *)
(*         "test", "boundary", "boot" (init's live mode), "bootSample"     *)
(*   pc    the I/O it waits for: "read" (file.arrayBuffer), "fetch" (fetch *)
(*         then resp.arrayBuffer, with no write to the state in between),  *)
(*         "status" (fetch of the status endpoint then res.json, likewise),*)
(*         "text" (file.text)                                              *)
(*   url   the url argument of loadFromUrl                                 *)
(***************************************************************************)
Task(id, kind, pc, url) == [id |-> id, kind |-> kind, pc |-> pc, url |-> url]

CanStart == booted /\ hist.started < MaxLoads /\ Cardinality(tasks) < MaxInFlight

CanAct == booted /\ hist.gestures < MaxGestures

Gesture(st) == [st EXCEPT !.hist.gestures = @ + 1]

\* a handler suspends: the task is recorded
Suspend(st, kind, pc, url) ==
  LET id == st.hist.started + 1
  IN Did([st EXCEPT !.tasks = @ \cup {Task(id, kind, pc, url)},
                    !.hist.started = id], "start", kind)

\* a suspended handler moves to its next await, or ends
MoveTo(st, t, pc) == [st EXCEPT !.tasks = (@ \ {t}) \cup {[t EXCEPT !.pc = pc]}]

Finish(st, t) == [st EXCEPT !.tasks = @ \ {t}]

\* the I/O of load t.id completed with a readable workbook
Completed(st, t, sheet) ==
  [Finish(st, t) EXCEPT !.hist.lastDone = t.id, !.hist.lastSheet = sheet]

\* loadFromUrl up to its first await
loadFromUrlBegin(st) == showLoading(setHealth(st, "Loading URL"))

\* live mode is switched off by a manual load
liveOff(st, msg) ==
  setApiStatus([setLiveUi(st, FALSE) EXCEPT !.storedLive = FALSE], msg)

\* loadFromUrl after resp.arrayBuffer() resolved with a readable workbook
loadFromUrlEnd(st, t, sheet) ==
  onDataLoaded(
    IF t.url # API_XLSX_ENDPOINT /\ st.liveMode
      THEN liveOff([hideLoading(showLoading(st)) EXCEPT !.sourceUrl = t.url],
                   "Live mode off (manual URL loaded).")
      ELSE [hideLoading(showLoading(st)) EXCEPT !.sourceUrl = t.url],
    Parsed(sheet), t.id)

\* a loadFromFile that leaves the refresh timer as it is
loadFromFileEndKeepingTimer(st, t, sheet) ==
  onDataLoaded(
    IF st.liveMode
      THEN liveOff([hideLoading(showLoading(st)) EXCEPT !.sourceUrl = ""],
                   "Live mode off (manual file loaded).")
      ELSE [hideLoading(showLoading(st)) EXCEPT !.sourceUrl = ""],
    Parsed(sheet), t.id)

\* loadFromFile after file.arrayBuffer() resolved with a readable workbook
loadFromFileEnd(st, t, sheet) ==
  onDataLoaded(
    applyRefresh(
      IF st.liveMode
        THEN liveOff([hideLoading(showLoading(st)) EXCEPT !.sourceUrl = ""],
                     "Live mode off (manual file loaded).")
        ELSE [hideLoading(showLoading(st)) EXCEPT !.sourceUrl = ""]),
    Parsed(sheet), t.id)

\* a catch block that also drops the dataset
catchLoadClearing(st, message) ==
  setHealth([hideLoading(st) EXCEPT !.errorCount = @ + 1, !.raw = <<>>,
                                    !.filtered = <<>>], message)

\* the catch block of a click or change handler of hookDataPanel
catchLoad(st, message) ==
  setHealth([hideLoading(st) EXCEPT !.errorCount = @ + 1], message)

\* the rest of init() after its live-mode block
initSample(st) ==
  IF st.query.noSample # <<"1">>
    THEN Suspend(loadFromUrlBegin(st), "bootSample", "fetch", DEFAULT_SAMPLE_URL)
    ELSE setHealth(st, "Ready. Load a file or URL from Data panel.")

\* what the caller of loadFromUrl does once it returned
afterLoadFromUrl(st, t) ==
  CASE t.kind = "url"    -> applyRefresh(st)
    [] t.kind = "live"   -> applyRefresh([st EXCEPT !.sourceUrl = API_XLSX_ENDPOINT])
    [] t.kind = "reload" ->
         setApiStatus(applyRefresh([st EXCEPT !.sourceUrl = API_XLSX_ENDPOINT]),
                      "Reloaded from API.")
    [] t.kind = "boot"   ->
         LET s1 == applyRefresh([st EXCEPT !.sourceUrl = API_XLSX_ENDPOINT])
         IN IF Len(s1.raw) > 0 THEN s1 ELSE initSample(s1)
    [] OTHER             -> st   \* "sample", "tick", "bootSample"

\* a caller of loadFromUrl whose interval callback stops the timer when the
\* load throws
catchLoadFromUrlStopping(st, t) ==
  CASE t.kind = "url"    -> catchLoad(st, "Load URL error")
    [] t.kind = "sample" -> catchLoad(st, "Sample load error")
    [] t.kind = "bootSample" -> catchLoad(st, "Auto-load sample failed")
    [] t.kind = "tick"   ->
         setHealth([st EXCEPT !.errorCount = @ + 1,
                              !.timers = clearInterval(@, st.refreshTimer),
                              !.refreshTimer = 0], "Auto-refresh error")
    [] t.kind = "live"   -> setApiStatus(st, "Live load failed")
    [] t.kind = "reload" -> setApiStatus(st, "Reload failed")
    [] t.kind = "boot"   ->
         LET s1 == setApiStatus(st, "Live load failed")
         IN IF Len(s1.raw) > 0 THEN s1 ELSE initSample(s1)

\* what the caller of loadFromUrl does when it threw
catchLoadFromUrl(st, t) ==
  CASE t.kind = "url"    -> catchLoad(st, "Load URL error")
    [] t.kind = "sample" -> catchLoad(st, "Sample load error")
    [] t.kind = "bootSample" -> catchLoad(st, "Auto-load sample failed")
    [] t.kind = "tick"   ->
         setHealth([st EXCEPT !.errorCount = @ + 1], "Auto-refresh error")
    [] t.kind = "live"   -> setApiStatus(st, "Live load failed")
    [] t.kind = "reload" -> setApiStatus(st, "Reload failed")
    [] t.kind = "boot"   ->
         LET s1 == setApiStatus(st, "Live load failed")
         IN IF Len(s1.raw) > 0 THEN s1 ELSE initSample(s1)

\* --- the file input ------------------------------------------------------
FileChosen ==
  /\ CanStart
  /\ Commit(Suspend(showLoading(setHealth(S, "Loading file")), "file", "read", ""))

FileRead(t, sheet) ==
  /\ t.kind = "file"
  /\ Commit(Did(loadFromFileEnd(Completed(S, t, sheet), t, sheet), "loaded", t.kind))

\* file.arrayBuffer() rejects, or XLSX.read throws
FileFailed(t) ==
  /\ t.kind = "file"
  /\ errorCount < MaxErrors
  /\ Commit(Did(catchLoad(Finish(S, t), "Load error"), "failed", t.kind))

\* --- loads from a URL ----------------------------------------------------
LoadUrlClicked ==
  /\ CanStart
  /\ Commit(Suspend(loadFromUrlBegin(S), "url", "fetch", MANUAL_URL))

LoadSampleClicked ==
  /\ CanStart
  /\ Commit(Suspend(loadFromUrlBegin(S), "sample", "fetch", DEFAULT_SAMPLE_URL))

ReloadApiClicked ==
  /\ CanStart
  /\ Commit(Suspend(loadFromUrlBegin(S), "reload", "fetch", API_XLSX_ENDPOINT))

\* the interval callback: loadFromUrl(state.sourceUrl), which returns at once
\* for an empty url
Tick(timer) ==
  /\ CanStart
  /\ IF sourceUrl = ""
       THEN Commit(Did(S, "other", ""))
       ELSE Commit(Suspend(loadFromUrlBegin(S), "tick", "fetch", sourceUrl))

\* fetch resolved with resp.ok, resp.arrayBuffer() resolved and XLSX.read
\* read the workbook
Fetched(t, sheet) ==
  /\ t.pc = "fetch"
  /\ Commit(Did(afterLoadFromUrl(loadFromUrlEnd(Completed(S, t, sheet), t, sheet), t),
                "loaded", t.kind))

\* fetch rejects, resp.ok is false, resp.arrayBuffer() rejects or XLSX.read
\* throws
LoadFailed(t) ==
  /\ t.pc = "fetch"
  /\ errorCount < MaxErrors
  /\ Commit(Did(catchLoadFromUrl(Finish(S, t), t), "failed", t.kind))

\* --- live mode -----------------------------------------------------------
\* testApiConnection up to its first await
testApiBegin(st) == setApiStatus(st, "Testing connection")

\* an enableLiveMode that goes to the spreadsheet without the status check
enableLiveModeSkippingTest(st, enabled, kind) ==
  LET s1 == [setLiveUi(st, enabled) EXCEPT !.storedLive = enabled]
  IN IF ~enabled
       THEN Did(setApiStatus(s1, "Live mode off. Use Load File or Load URL."),
                "other", "")
       ELSE Suspend(loadFromUrlBegin(s1), kind, "fetch", API_XLSX_ENDPOINT)

\* enableLiveMode(enabled) up to its first await (or its return)
enableLiveModeBegin(st, enabled, kind) ==
  LET s1 == [setLiveUi(st, enabled) EXCEPT !.storedLive = enabled]
  IN IF ~enabled
       THEN Did(setApiStatus(s1, "Live mode off. Use Load File or Load URL."),
                "other", "")
       ELSE Suspend(testApiBegin(s1), kind, "status", API_XLSX_ENDPOINT)

LiveToggled(enabled) ==
  /\ IF enabled THEN CanStart ELSE CanAct
  /\ Commit(enableLiveModeBegin(IF enabled THEN S ELSE Gesture(S), enabled, "live"))

TestApiClicked ==
  /\ CanStart
  /\ Commit(Suspend(testApiBegin(S), "test", "status", ""))

\* the status fetch resolved with res.ok and res.json() with a payload that
\* is not {ok: false}: the test passed, and enableLiveMode goes on to
\* loadFromUrl(API_XLSX_ENDPOINT)
StatusOk(t) ==
  /\ t.pc = "status"
  /\ LET s1 == setApiStatus(S, "API connected")
     IN IF t.kind = "test"
          THEN Commit(Did(Finish(s1, t), "other", t.kind))
          ELSE Commit(Did(MoveTo(loadFromUrlBegin(s1), t, "fetch"), "step", t.kind))

\* the status fetch rejects, is not ok, res.json() rejects, or the payload
\* says ok: false
StatusFailed(t) ==
  /\ t.pc = "status"
  /\ LET s0 == Finish(S, t)
         off == [setLiveUi(setApiStatus(s0, "Live mode failed"), FALSE)
                   EXCEPT !.storedLive = FALSE]
     IN CASE t.kind = "test" ->
               Commit(Did(setApiStatus(s0, "Test failed"), "refused", t.kind))
          [] t.kind = "live" -> Commit(Did(off, "refused", t.kind))
          [] t.kind = "boot" ->
               Commit(Did(IF Len(off.raw) > 0 THEN off ELSE initSample(off),
                          "refused", t.kind))

\* --- boundary overlay ----------------------------------------------------
BoundaryChosen ==
  /\ CanStart
  /\ Commit(Suspend(S, "boundary", "text", ""))

\* file.text() resolved and the text is GeoJSON
BoundaryRead(t) ==
  /\ t.kind = "boundary"
  /\ Commit(Did([Finish(S, t) EXCEPT !.boundary = "boundary"], "other", t.kind))

\* file.text() rejects, JSON.parse throws, or the document has no type
BoundaryFailed(t) ==
  /\ t.kind = "boundary"
  /\ errorCount < MaxErrors
  /\ Commit(Did(setHealth([Finish(S, t) EXCEPT !.errorCount = @ + 1],
                          "Boundary load failed"), "failed", t.kind))

\* --- boot ----------------------------------------------------------------
\* init(): hookDataPanel shows the saved live mode, then live mode or sample
Boot ==
  /\ ~booted
  /\ LET s0 == [S EXCEPT !.booted = TRUE]
         s1 == setApiStatus(setLiveUi(s0, s0.storedLive),
                 IF s0.storedLive THEN "Live mode is enabled" ELSE "Live mode off.")
         forceLive   == s1.query.live = <<"1">>
         forceNoLive == s1.query.noLive = <<"1">>
     IN IF ~forceNoLive /\ (forceLive \/ s1.storedLive)
          THEN Commit(Did(enableLiveModeBegin(s1, TRUE, "boot"), "boot", "boot"))
          ELSE Commit(Did(initSample(s1), "boot", ""))

\* --- filters, theme, map controls, refresh --------------------------------
Controls == {"q", "district", "cadaster", "siteStatus", "phoneStatus", "qc"}

\* the values the user can give a control
Choices(c) ==
  CASE c = "q"  -> QInputs \cup {<<>>}
    [] c = "qc" -> QcOptions
    [] OTHER    -> options[c] \cup {ALL}

\* the input event of a filter control
FilterInput(c, v) ==
  /\ CanAct
  /\ v \in Choices(c)
  /\ ui[c] # v
  /\ Commit(Did(updateAll(Gesture([S EXCEPT !.ui[c] = v, !.hist.edited = TRUE])),
                "filter", ""))

ResetClicked ==
  /\ CanAct
  /\ Commit(Did(resetFilters(Gesture([S EXCEPT !.hist.edited = TRUE])), "reset", ""))

ThemeToggled ==
  /\ CanAct
  /\ Commit(Did(IF Len(raw) > 0 THEN updateAll(Gesture(S)) ELSE Gesture(S),
                "render", ""))

\* change of #mapColorBy or #toggleCluster
MapControlChanged ==
  /\ CanAct
  /\ Commit(Did(updateMap(Gesture(S), filtered, "updateMap"), "render", ""))

ClearMapClicked ==
  /\ CanAct
  /\ Commit(Did([Gesture(S) EXCEPT !.views.map = [by |-> "clear", rows |-> <<>>]],
                "other", ""))

\* the user leaves v in #refreshMinutes and clicks Apply
ApplyRefreshClicked(v) ==
  /\ CanAct
  /\ v \in RefreshInputs
  /\ Commit(Did(applyRefresh([Gesture(S) EXCEPT !.refreshMinutes = v]), "other", ""))

Next ==
  \/ Boot
  \/ FileChosen
  \/ \E t \in tasks, sheet \in Workbooks : FileRead(t, sheet)
  \/ \E t \in tasks : FileFailed(t)
  \/ LoadUrlClicked
  \/ LoadSampleClicked
  \/ ReloadApiClicked
  \/ \E timer \in timers : Tick(timer)
  \/ \E t \in tasks, sheet \in Workbooks : Fetched(t, sheet)
  \/ \E t \in tasks : LoadFailed(t)
  \/ \E enabled \in BOOLEAN : LiveToggled(enabled)
  \/ TestApiClicked
  \/ \E t \in tasks : StatusOk(t)
  \/ \E t \in tasks : StatusFailed(t)
  \/ BoundaryChosen
  \/ \E t \in tasks : BoundaryRead(t)
  \/ \E t \in tasks : BoundaryFailed(t)
  \/ \E c \in Controls : \E v \in Choices(c) : FilterInput(c, v)
  \/ ResetClicked
  \/ ThemeToggled
  \/ MapControlChanged
  \/ ClearMapClicked
  \/ \E v \in RefreshInputs : ApplyRefreshClicked(v)

Spec == Init /\ [][Next]_vars

(***************************************************************************)
(* The filter engine on its own: applyFilters on every record sequence and *)
(* every criteria of a bounded set                                         *)
(***************************************************************************)
MaxRecords == 2   \* records in a sequence given to applyFilters

CriteriaSet ==
  [q : {<<>>, <<" ","B">>, <<"2">>},
   district : {ALL, <<"B">>, <<"T">>},
   cadaster : {ALL, <<"X">>},
   siteStatus : {ALL, ACTIVE},
   phoneStatus : {ALL, <<"A","n","s">>},
   qc : QcOptions]

\* raw is any sequence of at most MaxRecords normalized records of the workbooks
InitFilter ==
  /\ LET FilterRows == UNION {{ParsedTable[w][i] : i \in 1..Len(w)} : w \in Workbooks}
     IN raw \in UNION {[1..n -> FilterRows] : n \in 0..MaxRecords}
  /\ filters \in CriteriaSet
  /\ filtered = <<>>
  /\ coordsByPcode = <<>>
  /\ coordsMeta = InitialCoordsMeta
  /\ ui = DefaultFilters
  /\ options = [district |-> {}, cadaster |-> {}, siteStatus |-> {}, phoneStatus |-> {}]
  /\ query = NoQuery
  /\ sourceUrl = ""
  /\ liveMode = FALSE
  /\ storedLive = FALSE
  /\ errorCount = 0
  /\ health = "-"
  /\ apiStatus = "-"
  /\ overlay = FALSE
  /\ refreshTimer = 0
  /\ refreshEveryMs = 0
  /\ refreshMinutes = Txt(<<>>)
  /\ timers = {}
  /\ tasks = {}
  /\ views = [kpis |-> NoView, charts |-> NoView, qc |-> NoView,
              table |-> NoView, map |-> NoView]
  /\ boundary = ""
  /\ booted = FALSE
  /\ given = <<>>
  /\ produced = <<>>
  /\ tokenCache = EmptyTokenCache
  /\ now = 0
  /\ calls = {}
  /\ hist = InitialHist

\* state.filtered = applyFilters(state.raw)
FilterApplied ==
  /\ hist.op = "init"
  /\ filtered' = applyFilters(filters, raw)
  /\ hist' = [hist EXCEPT !.op = "applied"]
  /\ UNCHANGED <<raw, coordsByPcode, coordsMeta, filters, ui, options, query,
                 sourceUrl, liveMode, storedLive, errorCount, health, apiStatus,
                 overlay, refreshTimer, refreshEveryMs, refreshMinutes, timers,
                 tasks, views, boundary, booted, given, produced, tokenCache,
                 now, calls>>

NextFilter == FilterApplied

SpecFilter == InitFilter /\ [][NextFilter]_vars

(***************************************************************************)
(* Pages for the study of one function: a page as it is before init(), and *)
(* the state of the model set to a given page                              *)
(***************************************************************************)
FreshPage(q) ==
  [raw |-> <<>>, filtered |-> <<>>, coordsByPcode |-> <<>>,
   coordsMeta |-> InitialCoordsMeta, filters |-> DefaultFilters,
   ui |-> DefaultFilters,
   options |-> [district |-> {}, cadaster |-> {}, siteStatus |-> {},
                phoneStatus |-> {}],
   query |-> q, sourceUrl |-> "", liveMode |-> FALSE, storedLive |-> FALSE,
   errorCount |-> 0, health |-> "-", apiStatus |-> "-", overlay |-> FALSE,
   refreshTimer |-> 0, refreshEveryMs |-> 0, refreshMinutes |-> Txt(<<>>),
   timers |-> {}, tasks |-> {},
   views |-> [kpis |-> NoView, charts |-> NoView, qc |-> NoView,
              table |-> NoView, map |-> NoView],
   boundary |-> "", booted |-> FALSE, given |-> <<>>, produced |-> <<>>,
   tokenCache |-> EmptyTokenCache, now |-> 0, calls |-> {},
   hist |-> InitialHist]

Start(st) ==
  /\ raw = st.raw
  /\ filtered = st.filtered
  /\ coordsByPcode = st.coordsByPcode
  /\ coordsMeta = st.coordsMeta
  /\ filters = st.filters
  /\ ui = st.ui
  /\ options = st.options
  /\ query = st.query
  /\ sourceUrl = st.sourceUrl
  /\ liveMode = st.liveMode
  /\ storedLive = st.storedLive
  /\ errorCount = st.errorCount
  /\ health = st.health
  /\ apiStatus = st.apiStatus
  /\ overlay = st.overlay
  /\ refreshTimer = st.refreshTimer
  /\ refreshEveryMs = st.refreshEveryMs
  /\ refreshMinutes = st.refreshMinutes
  /\ timers = st.timers
  /\ tasks = st.tasks
  /\ views = st.views
  /\ boundary = st.boundary
  /\ booted = st.booted
  /\ given = st.given
  /\ produced = st.produced
  /\ tokenCache = st.tokenCache
  /\ now = st.now
  /\ calls = st.calls
  /\ hist = st.hist

(***************************************************************************)
(* Share link: encodeFiltersToQuery, copyShareLink and the page opened     *)
(* from the link.  URLSearchParams is the browser's: its serializer keeps  *)
(* letters and digits, writes a space as "+" and percent-encodes the rest; *)
(* its parser splits at "&" and at the first "=", reads "+" as a space and *)
(* decodes the percent codes.                                              *)
(***************************************************************************)
\* the characters of the model's texts that the serializer percent-encodes
UrlEscapes ==
  << <<"&", <<"%","2","6">> >>, <<"=", <<"%","3","D">> >>,
     <<"+", <<"%","2","B">> >>, <<"%", <<"%","2","5">> >> >>

\* application/x-www-form-urlencoded serializing of one name or value
FormEncode(s) ==
  LET Enc(c) == IF c = " " THEN <<"+">>
                ELSE IF \E i \in 1..Len(UrlEscapes) : UrlEscapes[i][1] = c
                  THEN UrlEscapes[CHOOSE i \in 1..Len(UrlEscapes) :
                                    UrlEscapes[i][1] = c][2]
                ELSE <<c>>
  IN JoinWith([i \in 1..Len(s) |-> Enc(s[i])], <<>>)

RECURSIVE FormDecode(_)
\* the parser's decoding of one name or value
FormDecode(s) ==
  IF s = <<>> THEN <<>>
  ELSE IF Head(s) = "+" THEN <<" ">> \o FormDecode(Tail(s))
  ELSE IF /\ Head(s) = "%" /\ Len(s) >= 3
          /\ \E i \in 1..Len(UrlEscapes) : UrlEscapes[i][2] = SubSeq(s, 1, 3)
    THEN <<UrlEscapes[CHOOSE i \in 1..Len(UrlEscapes) :
                        UrlEscapes[i][2] = SubSeq(s, 1, 3)][1]>>
         \o FormDecode(SubSeq(s, 4, Len(s)))
  ELSE <<Head(s)>> \o FormDecode(Tail(s))

\* the names of the query parameters the page reads, as text
ParamNames ==
  << <<"q", <<"q">> >>,
     <<"district", <<"d","i","s","t","r","i","c","t">> >>,
     <<"cadaster", <<"c","a","d","a","s","t","e","r">> >>,
     <<"siteStatus", <<"s","i","t","e","S","t","a","t","u","s">> >>,
     <<"phoneStatus", <<"p","h","o","n","e","S","t","a","t","u","s">> >>,
     <<"qc", <<"q","c">> >>,
     <<"live", <<"l","i","v","e">> >>,
     <<"noLive", <<"n","o","L","i","v","e">> >>,
     <<"noSample", <<"n","o","S","a","m","p","l","e">> >> >>

\* params.set(name, value) for the criteria that are not the default, then
\* params.toString()
encodeFiltersToQuery(f) ==
  LET Name(k) == ParamNames[CHOOSE i \in 1..Len(ParamNames) : ParamNames[i][1] = k][2]
      Pair(k) == <<FormEncode(Name(k)) \o <<"=">> \o FormEncode(f[k])>>
      DropAll(k) == IF f[k] # ALL THEN Pair(k) ELSE <<>>
  IN JoinWith((IF f.q # <<>> THEN Pair("q") ELSE <<>>)
              \o DropAll("district") \o DropAll("cadaster")
              \o DropAll("siteStatus") \o DropAll("phoneStatus")
              \o DropAll("qc"),
              <<"&">>)

\* url.search = q ? "?" + q : "", the search part of the copied link
copyShareLink(st) ==
  LET q == encodeFiltersToQuery(st.filters)
  IN [st EXCEPT !.produced = IF q # <<>> THEN <<"?">> \o q ELSE <<>>]

RECURSIVE SplitAt(_, _)
\* s.split(sep) for a one-character sep
SplitAt(s, sep) ==
  IF \E i \in 1..Len(s) : s[i] = sep
    THEN LET i == CHOOSE i \in 1..Len(s) :
                    s[i] = sep /\ \A j \in 1..(i - 1) : s[j] # sep
         IN <<SubSeq(s, 1, i - 1)>> \o SplitAt(SubSeq(s, i + 1, Len(s)), sep)
    ELSE <<s>>

\* new URLSearchParams(search), then params.get of every name the page reads
\* (<<>> for null: the page tests the values for truthiness only)
URLSearchParams(search) ==
  LET body   == IF search # <<>> /\ Head(search) = "?" THEN Tail(search) ELSE search
      pieces == SelectSeq(SplitAt(body, "&"), LAMBDA x : x # <<>>)
      NameOf(x)  == FormDecode(Head(SplitAt(x, "=")))
      ValueOf(x) == FormDecode(SubSeq(x, Len(Head(SplitAt(x, "="))) + 2, Len(x)))
      GetParam(n) == LET hits == SelectSeq(pieces, LAMBDA x : NameOf(x) = n)
                     IN IF Len(hits) > 0 THEN ValueOf(hits[1]) ELSE <<>>
  IN [k \in {ParamNames[i][1] : i \in 1..Len(ParamNames)} |->
        GetParam(ParamNames[CHOOSE i \in 1..Len(ParamNames) : ParamNames[i][1] = k][2])]

\* the criteria a user can have set on a page that shows the rows
ShareCriteria(rows) ==
  LET o == populateFilterControls(FreshPage(NoQuery), rows).options
  IN [q : {<<>>, <<"B">>, <<"a"," ","&","b">>, <<"=","+","%">>},
      district : o.district \cup {ALL},
      cadaster : o.cadaster \cup {ALL},
      siteStatus : o.siteStatus \cup {ALL},
      phoneStatus : o.phoneStatus \cup {ALL},
      qc : QcOptions]

\* a page that loaded a workbook, on which the user then set the criteria f
InitShare ==
  \E w \in Workbooks : \E f \in ShareCriteria(Parsed(w)) :
    Start([updateAll([onDataLoaded(FreshPage(NoQuery), Parsed(w), 1)
                        EXCEPT !.ui = f])
             EXCEPT !.given = f, !.booted = TRUE])

\* click on #copyShareLinkBtn
ShareLinkCopied ==
  /\ hist.op \notin {"copied", "opened"}
  /\ Commit(Did(copyShareLink(S), "copied", ""))

\* the copied link is opened: a new page whose location.search is the
\* link's, which loads the workbook w
LinkOpened(w) ==
  /\ hist.op = "copied"
  /\ Commit(Did(onDataLoaded([FreshPage(URLSearchParams(produced))
                                EXCEPT !.given = given, !.produced = produced,
                                       !.booted = TRUE],
                             Parsed(w), 1),
                "opened", ""))

NextShare ==
  \/ ShareLinkCopied
  \/ \E w \in Workbooks : LinkOpened(w)

SpecShare == InitShare /\ [][NextShare]_vars

(***************************************************************************)
(* The coordinate engine on its own: setCoordsFromSpreadsheet on the       *)
(* normalized records of every sheet of a bounded set                      *)
(***************************************************************************)
MaxCoordRows == 2   \* rows of a sheet given to the coordinate engine

CoordRow(pcode, cadaster, lat, lng) ==
  << <<"PCode", Txt(pcode)>>, <<"Cadaster", cadaster>>,
     <<"Latitude", lat>>, <<"Longitude", lng>> >>

\* rows with and without an identifier, with a repeated identifier, with
\* axis values in a band, outside both bands and blank, and with a third
\* column holding latitudes
CoordRows ==
  { CoordRow(<<"1">>,     Txt(<<>>), Num(33),   Num(35)),
    CoordRow(<<" ","2">>, Txt(<<>>), Num(33),   Num(35)),
    CoordRow(<<"1">>,     Txt(<<>>), Num(33),   Num(37)),
    CoordRow(<<>>,        Txt(<<>>), Num(33),   Num(35)),
    CoordRow(<<"1">>,     Txt(<<>>), Txt(<<>>), Num(35)),
    CoordRow(<<"1">>,     Txt(<<>>), Num(36),   Num(35)),
    CoordRow(<<"1">>,     Num(33),   Num(36),   Num(35)),
    CoordRow(<<"1">>,     Num(33),   Num(33),   Num(35)),
    CoordRow(<<"1">>,     Txt(<<>>), Num(36),   Num(37)),
    CoordRow(<<"1">>,     Txt(<<>>), Num(33),   Txt(<<>>)),
    CoordRow(<<"1">>,     Num(33),   Txt(<<>>), Txt(<<>>)),
    CoordRow(<<" ","2">>, Num(33),   Txt(<<>>), Num(37)) }

InitCoords ==
  \E sheet \in UNION {[1..n -> CoordRows] : n \in 0..MaxCoordRows} :
    Start([FreshPage(NoQuery) EXCEPT !.given = sheet, !.raw = parseWorkbook(sheet)])

\* setCoordsFromSpreadsheet(rows) on the records parseWorkbook returned
setCoordsOf(st, rows) ==
  setCoords(st, buildCoordsWith(st.coordsMeta, rows, inferLatLngKeys(rows)))

CoordsBuilt ==
  /\ hist.op = "init"
  /\ Commit(Did(setCoordsOf(S, raw), "built", ""))

NextCoords == CoordsBuilt

SpecCoords == InitCoords /\ [][NextCoords]_vars

(***************************************************************************)
(* The normalizer on its own: parseWorkbook on every sheet of a bounded    *)
(* set                                                                     *)
(***************************************************************************)
MaxSheetRows == 1   \* rows of a sheet given to the normalizer

NormRow(phone, site, district, cadaster, issues, qa, qb, qc) ==
  << <<"PCode", Txt(<<"1">>)>>, <<"Phone call status", phone>>,
     <<"Site Status", site>>, <<"District", district>>,
     <<"Cadaster", cadaster>>, <<"QC - Issue count", issues>>,
     <<"QC - Missing assessment date", qa>>,
     <<"QC - Totals mismatch", qb>>,
     <<"QC - Invalid PCode format", qc>> >>

\* rows over the status and place cells, and rows over the QC cells
NormRows ==
  { NormRow(ph, si, di, ca, Num(0), Txt(NO), Txt(NO), Txt(NO)) :
      ph \in {Txt(<<>>), Txt(<<" ">>), Txt(<<" ","A","n","s"," ">>)},
      si \in {Txt(<<>>), Txt(<<"A","c","t"," ">>), Num(0)},
      di \in {Txt(<<>>), Txt(<<" ","B">>)},
      ca \in {Txt(<<" "," ">>), Txt(<<"X">>)} }
  \cup
  { NormRow(Txt(<<>>), Txt(<<>>), Txt(<<>>), Txt(<<>>), n, qa, qb, qc) :
      n  \in {Num(0), Num(5)},
      qa \in {Bool(TRUE), Txt(NO), Txt(<<"Y","E","S">>), Num(2)},
      qb \in {Num(1), Num(0), Txt(<<" ","t","r","u","e">>), Bool(FALSE)},
      qc \in {Txt(<<"1">>), Txt(<<>>), Txt(<<"y","e","s">>), Txt(<<"0">>)} }

InitNormalize ==
  \E sheet \in UNION {[1..n -> NormRows] : n \in 0..MaxSheetRows} :
    Start([FreshPage(NoQuery) EXCEPT !.given = sheet])

\* const { rows } = parseWorkbook(buf), kept as state.raw
WorkbookParsed ==
  /\ hist.op = "init"
  /\ Commit(Did([S EXCEPT !.raw = parseWorkbook(given)], "parsed", ""))

NextNormalize == WorkbookParsed

SpecNormalize == InitNormalize /\ [][NextNormalize]_vars

(***************************************************************************)
(* Aggregation: countBy and groupSum, whose result is a plain object       *)
(* literal ({}), so a name that Object.prototype defines is read through   *)
(* the prototype until the object has it as an own property                *)
(***************************************************************************)
PROTO       == <<"_","_","p","r","o","t","o","_","_">>
CONSTRUCTOR == <<"c","o","n","s","t","r","u","c","t","o","r">>

\* String(out[k]) of a name that {} inherits: its prototype, and the Object
\* function (the other inherited methods read as "constructor" does)
InheritedText(k) ==
  IF k = PROTO
    THEN <<"[","o","b","j","e","c","t"," ","O","b","j","e","c","t","]">>
    ELSE <<"f","u","n","c","t","i","o","n"," ","O","b","j","e","c","t","(",")",
           " ","{"," ","[","n","a","t","i","v","e"," ","c","o","d","e","]",
           " ","}">>

\* out[k], read
ReadEntry(out, k) ==
  IF Has(out, k) THEN Get(out, k)
  ELSE IF k \in {PROTO, CONSTRUCTOR} THEN Txt(InheritedText(k))
  ELSE Undef

\* out[k] = v for a primitive v: the __proto__ setter ignores a value that
\* is neither an object nor null, and no own property is made
WriteEntry(out, k, v) == IF k = PROTO THEN out ELSE Put(out, k, v)

Falsy(v) ==
  \/ v.t \in {"undef", "nan"}
  \/ v.t = "text" /\ v.s = <<>>
  \/ v.t \in {"num", "bool"} /\ v.n = 0

\* v || 0
OrZero(v) == IF Falsy(v) THEN Num(0) ELSE v

\* a + b: concatenation when either side is text, else the sum
Plus(a, b) ==
  IF a.t = "text" \/ b.t = "text"
    THEN Txt(StringOf(a) \o StringOf(b))
    ELSE Num(a.n + b.n)

\* fnKey(r) || "—", as a property name
KeyOf(v) == IF Falsy(v) THEN EMDASH ELSE StringOf(v)

RECURSIVE CountLoop(_, _, _, _)
\* for (const r of rows) of countBy, from row i on; fnKey reads field key
CountLoop(rows, i, key, out) ==
  IF i > Len(rows) THEN out
  ELSE LET k == KeyOf(Get(rows[i], key))
       IN CountLoop(rows, i + 1, key,
            WriteEntry(out, k, Plus(OrZero(ReadEntry(out, k)), Num(1))))

countBy(rows, key) == CountLoop(rows, 1, key, <<>>)

RECURSIVE SumLoop(_, _, _, _, _)
\* for (const r of rows) of groupSum; fnVal is toNum of field val
SumLoop(rows, i, key, val, out) ==
  IF i > Len(rows) THEN out
  ELSE LET k == KeyOf(Get(rows[i], key))
       IN SumLoop(rows, i + 1, key, val,
            WriteEntry(out, k, Plus(OrZero(ReadEntry(out, k)),
                                    OrZero(toNum(Get(rows[i], val))))))

groupSum(rows, key, val) == SumLoop(rows, 1, key, val, <<>>)

MaxAggRows == 2   \* rows of a sheet given to the aggregations

TOTAL_INDIVIDUALS == "Total number of Individuals"

AggRow(cadaster, total) ==
  << <<"PCode", Txt(<<"1">>)>>, <<"Cadaster", cadaster>>,
     <<TOTAL_INDIVIDUALS, total>> >>

AggRows ==
  { AggRow(Txt(c), t) :
      c \in {<<>>, <<"X">>, <<"Y">>, PROTO},
      t \in {Num(0), Num(3), Txt(<<"2">>), Txt(<<>>)} }

\* the key functions: r => r.__cadaster of the charts, and a reader of the
\* raw column, which can be empty
KeyFields == {"__cadaster", "Cadaster"}

InitAggregate ==
  \E sheet \in UNION {[1..n -> AggRows] : n \in 0..MaxAggRows} :
    Start([FreshPage(NoQuery) EXCEPT !.given = sheet,
                                     !.raw = parseWorkbook(sheet)])

\* countBy(rows, fnKey), its result kept as the thing handed out
Counted(key) ==
  /\ hist.op = "init"
  /\ Commit(Did([S EXCEPT !.produced = countBy(raw, key)], "counted", key))

\* groupSum(rows, fnKey, (r) => toNum(r["Total number of Individuals"]))
Summed(key) ==
  /\ hist.op = "init"
  /\ Commit(Did([S EXCEPT !.produced = groupSum(raw, key, TOTAL_INDIVIDUALS)],
                "summed", key))

NextAggregate ==
  \/ \E key \in KeyFields : Counted(key)
  \/ \E key \in KeyFields : Summed(key)

SpecAggregate == InitAggregate /\ [][NextAggregate]_vars

(***************************************************************************)
(* CSV export: toCSV on the rows of a bounded set of sheets                *)
(***************************************************************************)
QUOTE == "\""
COMMA == ","
LF    == "\n"
CR    == "\r"

RECURSIVE DoubleQuotes(_)
\* str.replace(/"/g, '""')
DoubleQuotes(str) ==
  IF str = <<>> THEN <<>>
  ELSE (IF str[1] = QUOTE THEN <<QUOTE, QUOTE>> ELSE <<str[1]>>)
       \o DoubleQuotes(Tail(str))

\* esc of toCSV
esc(v) ==
  LET str == IF v.t = "undef" THEN <<>> ELSE StringOf(v)
  IN IF \E i \in 1..Len(str) : str[i] \in {QUOTE, LF, COMMA}
       THEN <<QUOTE>> \o DoubleQuotes(str) \o <<QUOTE>>
       ELSE str

\* a column name as text
NameText(c) ==
  CASE c = "PCode Name" -> <<"P","C","o","d","e"," ","N","a","m","e">>
    [] c = "Local Name" -> <<"L","o","c","a","l"," ","N","a","m","e">>

toCSV(rows, columns) ==
  LET header == JoinWith([j \in 1..Len(columns) |-> esc(Txt(NameText(columns[j])))],
                         <<COMMA>>)
      lines  == [i \in 1..Len(rows) |->
                   JoinWith([j \in 1..Len(columns) |-> esc(Get(rows[i], columns[j]))],
                            <<COMMA>>)]
  IN JoinWith(<<header>> \o lines, <<LF>>)

MaxCsvRows == 2   \* rows of a sheet given to the export

CsvColumns == <<"PCode Name", "Local Name">>

CsvTexts ==
  { <<>>, <<"a">>, <<"a", COMMA, QUOTE>>, <<LF>>, <<"x", CR>> }

CsvRows ==
  { << <<"PCode Name", Txt(a)>>, <<"Local Name", Txt(b)>> >> :
      a \in CsvTexts, b \in CsvTexts }

InitCsv ==
  \E sheet \in UNION {[1..n -> CsvRows] : n \in 0..MaxCsvRows} :
    Start([FreshPage(NoQuery) EXCEPT !.given = sheet])

\* downloadText(name, toCSV(data, cols), "text/csv")
CsvWritten ==
  /\ hist.op = "init"
  /\ Commit(Did([S EXCEPT !.produced = toCSV(given, CsvColumns)], "csv", ""))

NextCsv == CsvWritten

SpecCsv == InitCsv /\ [][NextCsv]_vars

(***************************************************************************)
(* The QC criterion on its own: the three settings of #qcFilter applied to *)
(* the records of a bounded set of sheets                                  *)
(***************************************************************************)
MaxQcRows == 2   \* rows of a sheet given to the QC criterion

QcRow(district, qc) ==
  << <<"PCode", Txt(<<"1">>)>>, <<"District", Txt(district)>>,
     <<"QC - Any issue", qc>> >>

QcRows ==
  { QcRow(d, qc) :
      d  \in {<<"B">>, <<"T">>},
      qc \in {Txt(YES), Txt(<<" ","Y","e","s"," ">>), Txt(<<"y","e","s">>),
              Txt(NO), Txt(<<>>), Bool(TRUE)} }

InitQc ==
  \E sheet \in UNION {[1..n -> QcRows] : n \in 0..MaxQcRows} :
    \E d \in {ALL, <<"B">>} :
      Start([FreshPage(NoQuery) EXCEPT
               !.given = sheet, !.raw = parseWorkbook(sheet),
               !.filters = [DefaultFilters EXCEPT !.district = d],
               !.ui = [DefaultFilters EXCEPT !.district = d]])

\* #qcFilter is set to c: filters = readFiltersFromUI(), state.filtered =
\* applyFilters(state.raw); the result is kept with its setting
QcChosen(c) ==
  /\ \A i \in 1..Len(produced) : produced[i][1] # c
  /\ LET f == [filters EXCEPT !.qc = c]
     IN Commit(Did([S EXCEPT !.ui = f, !.filters = f,
                             !.filtered = applyFilters(f, raw),
                             !.produced = Append(@, <<c, applyFilters(f, raw)>>)],
                   "filter", ""))

NextQc == \E c \in QcOptions : QcChosen(c)

SpecQc == InitQc /\ [][NextQc]_vars

(***************************************************************************)
(* The API: api/_lib/graph.js and the two handlers (status metadata and    *)
(* spreadsheet bytes).  An invocation is a record of `calls`:              *)
(*   id, endpoint ("status", "xlsx"), method                               *)
(*   pc        the upstream answer it awaits: "head", "direct", "token",   *)
(*             "share", "meta", "download", or "done" once it has answered *)
(*   at        the `now` its getAccessToken read                           *)
(*   token     the access token getAccessToken returned to it              *)
(*   upstream  upstream requests it has sent                               *)
(*   failed    (ghost) something failed while it was served                *)
(*   status    the HTTP status of its answer (0: none yet)                 *)
(*   ok        the ok field of its JSON answer ("none": no JSON body)      *)
(* A token is [id, at, expiresIn]: who asked for it, the time of the       *)
(* request, and expires_in of the token response (Undef when absent).      *)
(* `given` holds the environment of the deployment.                        *)
(***************************************************************************)
MaxCalls == 2       \* invocations of the handlers in one run
MaxClock == 60000   \* the server clock stops here (ms)

CLOCK_STEP         == MaxClock \div 2   \* the clock moves in steps of 30 s
TOKEN_MARGIN_MS    == 60000
DEFAULT_EXPIRES_IN == 3600

\* the environment: MS_TENANT_ID, MS_CLIENT_ID and MS_CLIENT_SECRET set or
\* not, LIVE_XLSX_URL set or not, and the file given by SP_DRIVE_ID +
\* SP_ITEM_ID ("ids"), by SP_SHARE_LINK ("share") or not at all ("none")
Envs == [ms : BOOLEAN, direct : BOOLEAN, file : {"ids", "share", "none"}]

\* how an upstream call ends: resolved and res.ok; resolved with an HTTP
\* error (or with a body that lacks what the code reads from it); rejected
Outcomes == {"ok", "http", "net"}

\* expires_in of a token response: absent, 0, or 90 seconds
ExpiresIns == {Undef, Num(0), Num(90)}

\* how the token request ends: as any upstream call, with a body that is
\* not JSON, with JSON that has no access_token, or with a token
TokenAnswers ==
  [kind : {"http", "net", "malformed", "noToken"}, expiresIn : {Undef}]
  \cup [kind : {"token"}, expiresIn : ExpiresIns]

NewCall(st, endpoint, method) ==
  [id |-> Cardinality(st.calls) + 1, endpoint |-> endpoint, method |-> method,
   pc |-> "new", at |-> 0, token |-> NoToken, upstream |-> 0, failed |-> FALSE,
   status |-> 0, ok |-> "none"]

PutCall(st, c) == [st EXCEPT !.calls = {x \in @ : x.id # c.id} \cup {c}]

\* the handler returns a Response
Reply(st, c, status, ok) ==
  PutCall(st, [c EXCEPT !.pc = "done", !.status = status, !.ok = ok])

\* the handler's catch: {ok: false, error} with status 500
jsonError(st, c) == Reply(st, [c EXCEPT !.failed = TRUE], 500, "false")

\* the handler's answer with the metadata (JSON, ok: true) or the bytes
respond200(st, c) ==
  Reply(st, c, 200, IF c.endpoint = "status" THEN "true" ELSE "none")

\* await fetch(...): one more upstream request, and the handler waits
Await(st, c, pc) == PutCall(st, [c EXCEPT !.pc = pc, !.upstream = @ + 1])

getDriveItemMetaBegin(st, c) == Await(st, c, "meta")

\* resolveDriveItem up to its await (or its return, or its throw)
resolveDriveItem(st, c) ==
  CASE st.given.file = "ids"   -> getDriveItemMetaBegin(st, c)
    [] st.given.file = "share" -> Await(st, c, "share")
    [] OTHER                   -> jsonError(st, c)

\* getAccessToken up to its await (or its return, or its throw), and what
\* the handler does next
getAccessTokenBegin(st, c) ==
  IF ~st.given.ms THEN Did(jsonError(st, c), "noConfig", c.endpoint)
  ELSE IF /\ st.tokenCache.accessToken # NoToken
          /\ st.now < st.tokenCache.expiresAtMs - TOKEN_MARGIN_MS
    THEN Did(resolveDriveItem(st, [c EXCEPT !.token = st.tokenCache.accessToken]),
             "tokenCached", c.endpoint)
    ELSE Did(Await(st, [c EXCEPT !.at = st.now], "token"), "tokenAsked", c.endpoint)

\* getAccessToken after the token request ended, and what the handler does
\* next
getAccessTokenEnd(st, c, a) ==
  IF a.kind # "token" THEN Did(jsonError(st, c), "tokenFailed", c.endpoint)
  ELSE LET tok == [id |-> c.id, at |-> c.at, expiresIn |-> a.expiresIn]
           secs == IF Falsy(a.expiresIn) THEN DEFAULT_EXPIRES_IN
                   ELSE a.expiresIn.n
           st1 == [st EXCEPT !.tokenCache =
                     [accessToken |-> tok, expiresAtMs |-> c.at + secs * 1000]]
       IN Did(resolveDriveItem(st1, [c EXCEPT !.token = tok]),
              "tokenFresh", c.endpoint)

\* the status handler after its HEAD of the direct URL ended: a rejected
\* fetch is caught (head = null) and res.ok is not read
statusHeadEnd(st, c, o) ==
  respond200(st, [c EXCEPT !.failed = @ \/ o # "ok"])

\* a handler after the upstream call it awaited ended with outcome o
handlerResume(st, c, o) ==
  CASE c.pc = "head"     -> statusHeadEnd(st, c, o)
    [] c.pc = "direct"   -> IF o = "ok" THEN respond200(st, c) ELSE jsonError(st, c)
    [] c.pc = "share"    -> IF o = "ok" THEN getDriveItemMetaBegin(st, c)
                            ELSE jsonError(st, c)
    [] c.pc = "meta"     ->
         IF c.endpoint = "status"
           THEN IF o = "ok" THEN respond200(st, c) ELSE jsonError(st, c)
           ELSE Await(st, [c EXCEPT !.failed = @ \/ o # "ok"], "download")
    [] c.pc = "download" -> IF o = "ok" THEN respond200(st, c) ELSE jsonError(st, c)

\* handler(request) up to its first await (or its return)
handlerBegin(st, c) ==
  IF c.method # "GET"
    THEN Reply(st, c, 405, IF c.endpoint = "status" THEN "false" ELSE "none")
  ELSE IF st.given.direct
    THEN Await(st, c, IF c.endpoint = "status" THEN "head" ELSE "direct")
  ELSE getAccessTokenBegin(st, c)

InitApi ==
  \E e \in Envs : Start([FreshPage(NoQuery) EXCEPT !.given = e])

Requested(endpoint, method) ==
  /\ Cardinality(calls) < MaxCalls
  /\ Commit(handlerBegin(Did(S, "request", endpoint), NewCall(S, endpoint, method)))

TokenAnswered(c, a) ==
  /\ c.pc = "token"
  /\ Commit(getAccessTokenEnd(S, c, a))

UpstreamAnswered(c, o) ==
  /\ c.pc \in {"head", "direct", "share", "meta", "download"}
  /\ Commit(handlerResume(Did(S, "answer", c.endpoint), c, o))

ClockAdvanced ==
  /\ now < MaxClock
  /\ Commit(Did([S EXCEPT !.now = @ + CLOCK_STEP], "clock", ""))

NextApi ==
  \/ \E endpoint \in {"status", "xlsx"}, method \in {"GET", "POST"} :
       Requested(endpoint, method)
  \/ \E c \in calls, a \in TokenAnswers : TokenAnswered(c, a)
  \/ \E c \in calls, o \in Outcomes : UpstreamAnswered(c, o)
  \/ ClockAdvanced

SpecApi == InitApi /\ [][NextApi]_vars

(***************************************************************************)
(* Properties                                                              *)
(***************************************************************************)

\* s is r with some elements left out, the others in their order
IsSubsequence(s, r) ==
  \E f \in [1..Len(s) -> 1..Len(r)] :
    /\ \A i \in 1..Len(s) : s[i] = r[f[i]]
    /\ \A i, j \in 1..Len(s) : i < j => f[i] < f[j]

\* C2: for every record sequence and every criteria, the result of
\* applyFilters is a subsequence of its argument in the original order, and
\* under the default criteria (every selector "All", no text) it is the whole
\* argument.
C2_SubsequenceInOrder ==
  hist.op = "applied" =>
    /\ IsSubsequence(filtered, raw)
    /\ filters = DefaultFilters => filtered = raw

\* applyFilters dropped the first of two records and kept the second
C2_Witness ==
  /\ hist.op = "applied"
  /\ filters # DefaultFilters
  /\ Len(raw) = 2
  /\ raw[1] # raw[2]
  /\ filtered = <<raw[2]>>

\* the conditions of the filter, as one conjunction
KeptAsStated(f, r) ==
  /\ f.district = ALL \/ Get(r, "__district").s = f.district
  /\ f.cadaster = ALL \/ Get(r, "__cadaster").s = f.cadaster
  /\ f.siteStatus = ALL \/ Get(r, "__siteStatus").s = f.siteStatus
  /\ f.phoneStatus = ALL \/ Get(r, "__phoneStatus").s = f.phoneStatus
  /\ f.qc = ANY_ISSUE => Get(r, "__qcAny").s = YES
  /\ f.qc = NO_ISSUES => Get(r, "__qcAny").s = NO
  /\ \/ toLowerCase(trim(f.q)) = <<>>
     \/ includes(Get(r, "__search").s, toLowerCase(trim(f.q)))

\* C3: applyFilters keeps a record if and only if every selector is "All" or
\* equals the record's field, "Any issue" goes with qcAny "Yes" and "No
\* issues" with qcAny "No", and the trimmed lower-cased text is empty or a
\* substring of the record's search blob.
C3_KeptIffAllMatch ==
  hist.op = "applied" =>
    /\ Len(filtered) = Cardinality({i \in 1..Len(raw) : KeptAsStated(filters, raw[i])})
    /\ \A i \in 1..Len(raw) :
         KeptAsStated(filters, raw[i]) <=> (\E j \in 1..Len(filtered) : filtered[j] = raw[i])

\* a text criterion, a district and "No issues" together kept one record of two
C3_Witness ==
  /\ hist.op = "applied"
  /\ filters.q # <<>>
  /\ filters.district # ALL
  /\ filters.qc = NO_ISSUES
  /\ Len(raw) = 2
  /\ Len(filtered) = 1

ViewNames == {"kpis", "charts", "qc", "table", "map"}

\* C1: after a completed load or a change of the filter criteria,
\* state.filtered is applyFilters(state.raw) under the current criteria, and
\* the KPIs, the charts, the QC panel, the table and the map were all last
\* rendered by updateAll from that sequence.
C1_FilteredFeedsEveryView ==
  hist.op \in {"loaded", "filter", "reset"} =>
    /\ filtered = applyFilters(filters, raw)
    /\ \A v \in ViewNames : views[v] = [by |-> "updateAll", rows |-> filtered]

\* a filter input after a load left one record of two in every view
C1_Witness ==
  /\ hist.op = "filter"
  /\ Len(raw) = 2
  /\ Len(filtered) = 1
  /\ views.table.rows = filtered

\* C4: a change of the filter criteria (an input event of a filter control
\* or Reset) leaves state.raw, state.coordsByPcode and state.coordsMeta as
\* they were and runs no coordinate inference; inference has run at most
\* once per load.
C4_FilterChangeOnlyRefilters ==
  [][ /\ hist'.op \in {"filter", "reset"} =>
           /\ raw' = raw
           /\ coordsByPcode' = coordsByPcode
           /\ coordsMeta' = coordsMeta
           /\ hist'.inferRuns = hist.inferRuns
      /\ hist'.inferRuns <= hist'.loadsDone ]_vars

\* a filter input changed state.filtered of a dataset with mapped records
C4_Witness ==
  /\ hist.op = "filter"
  /\ hist.inferRuns = 1
  /\ coordsMeta.mapped > 0
  /\ filtered # raw

DataLoadKinds == {"file", "url", "sample", "tick"}

\* C5: a load event (file pick, URL load, sample load, auto-refresh tick)
\* leaves the six filter criteria as the user last set them.
C5_LoadsKeepCriteria ==
  [][ (hist'.op = "loaded" /\ hist'.kind \in DataLoadKinds /\ hist.edited)
        => filters' = filters ]_vars

\* a load completed after the user had set a criterion other than the default
C5_Witness ==
  /\ hist.op = "loaded"
  /\ hist.kind \in DataLoadKinds
  /\ hist.edited
  /\ hist.loadsDone = 2

\* C6: every view render reads state.raw, the coordinate index and
\* state.filtered of one and the same load, and between two handlers the
\* three are of the same load; this includes the renders of filter, theme and
\* map-control events while a load waits for its I/O.
C6_RendersReadOneLoad ==
  /\ hist.render[1] = hist.render[2]
  /\ hist.render[2] = hist.render[3]
  /\ hist.rawLoad = hist.coordsLoad
  /\ hist.coordsLoad = hist.filteredLoad

\* a filter, theme or map-control event rendered the first load's data while
\* another load was waiting for its I/O
C6_Witness ==
  /\ hist.op \in {"filter", "render"}
  /\ hist.render = <<1, 1, 1>>
  /\ \E t \in tasks : t.pc \in {"fetch", "read"}

\* C7: a failed load leaves state.raw, state.coordsByPcode, state.coordsMeta
\* and state.filtered as they were, which is as the last successful load
\* left them.
C7_FailedLoadKeepsDataset ==
  [][ hist'.op = "failed" =>
        /\ raw' = raw
        /\ coordsByPcode' = coordsByPcode
        /\ coordsMeta' = coordsMeta
        /\ filtered' = filtered
        /\ raw' = Parsed(hist'.lastSheet)
        /\ hist'.rawLoad = hist'.lastDone ]_vars

\* a load failed after another had succeeded
C7_Witness ==
  /\ hist.op = "failed"
  /\ hist.kind \in DataLoadKinds
  /\ hist.lastDone > 0
  /\ Len(raw) > 0

FailureMessages ==
  {"Load error", "Load URL error", "Sample load error", "Auto-load sample failed",
   "Auto-refresh error", "Boundary load failed"}

\* C8: every ingestion failure, on whichever path (file, manual URL, sample,
\* auto-refresh tick, live-mode load or reload through the API endpoint,
\* boundary GeoJSON), sets a health message and adds exactly one to
\* state.errorCount.
C8_EveryFailureCounted ==
  [][ hist'.op = "failed" =>
        /\ errorCount' = errorCount + 1
        /\ health' \in FailureMessages ]_vars

\* a reload through the API endpoint failed
C8_Witness ==
  /\ hist.op = "failed"
  /\ hist.kind = "reload"
  /\ errorCount = 0
  /\ health = "Loading URL"

\* the loads of a dataset that wait for their I/O
Loading == {t \in tasks : t.pc \in {"fetch", "read", "status"} /\ t.kind # "test"}

\* C9: overlapping loads are not queued: once all of them have completed,
\* state.raw, the coordinate index and state.filtered are those of the load
\* whose I/O completed last, whatever the order in which the loads started.
C9_LastCompletedWins ==
  (Loading = {} /\ hist.lastDone > 0) =>
    /\ raw = Parsed(hist.lastSheet)
    /\ hist.rawLoad = hist.lastDone
    /\ hist.coordsLoad = hist.lastDone
    /\ hist.filteredLoad = hist.lastDone

\* two loads overlapped and the one started first completed last, with a
\* sheet other than the other's
C9_Witness ==
  /\ Loading = {}
  /\ hist.loadsDone = 2
  /\ hist.lastDone = 1
  /\ hist.started = 2
  /\ raw = Parsed(hist.lastSheet)

\* the one timer alive is state.refreshTimer, made for the current interval
\* and source URL; there is none when there is no source URL
TimerMatchesConfig ==
  IF sourceUrl = "" THEN timers = {}
  ELSE timers = {[id |-> refreshTimer, ms |-> refreshEveryMs, url |-> sourceUrl]}

\* C10: whenever the interval or state.sourceUrl changes, the timer is
\* cancelled and a new one is created for the new configuration (none when
\* there is no source URL); no timer is left running with a configuration
\* older than the change.
C10_TimerFollowsConfig ==
  [][ (sourceUrl' # sourceUrl \/ refreshEveryMs' # refreshEveryMs)
        => TimerMatchesConfig' ]_vars

\* a timer made for one source URL is alive while state.sourceUrl is another
C10_Witness ==
  \E t \in timers : t.id = refreshTimer /\ t.url # sourceUrl /\ sourceUrl # ""

C12_ShareLinkRoundTrip == hist.op = "opened" => filters = given

\* a link with a district, a QC choice and a text with reserved characters
\* was opened
C12_Witness ==
  /\ hist.op = "opened"
  /\ given.district # ALL
  /\ given.qc # ALL
  /\ given.q = <<"a"," ","&","b">>

(***************************************************************************)
(* Coordinate inference                                                    *)
(***************************************************************************)
\* the score of every column of the records, in the order of the columns:
\* <<in band, parsed>> over the first min(1200, n) rows, <<0, 1>> when
\* nothing parses; the band is lo10/10 .. hi10/10, ends included
StatedScores(rows, lo10, hi10) ==
  [c \in 1..Len(rows[1]) |->
     LET k == rows[1][c][1]
         parsed == {i \in 1..(IF Len(rows) < 1200 THEN Len(rows) ELSE 1200) :
                      parseCoordinate(Get(rows[i], k)).t = "num"}
         inBand == {i \in parsed :
                      /\ 10 * parseCoordinate(Get(rows[i], k)).n >= lo10
                      /\ 10 * parseCoordinate(Get(rows[i], k)).n <= hi10}
     IN IF parsed = {} THEN <<0, 1>>
        ELSE <<Cardinality(inBand), Cardinality(parsed)>>] \o <<>>

\* key is what the stated rule picks among the columns `keys` scored `sc`,
\* `named` being the positions of the name-matched columns
PickedAsStated(keys, sc, named, key) ==
  LET Geq(a, b) == a[1] * b[2] >= b[1] * a[2]
      BestOf(I) == {i \in I : \A j \in I : Geq(sc[i], sc[j])}
  IN IF \E i \in named : Geq(sc[i], <<25, 100>>)
       THEN \E i \in BestOf(named) : key = keys[i]
       ELSE IF \E i \in DOMAIN keys : Geq(sc[i], <<65, 100>>)
         THEN \E i \in BestOf(DOMAIN keys) : key = keys[i]
         ELSE key = NULL

\* the positions of the columns named as a latitude
NamedLat(keys) ==
  {i \in DOMAIN keys :
     /\ includes(toLowerCase(KeyText(keys[i])), <<"l","a","t">>)
     /\ ~includes(toLowerCase(KeyText(keys[i])), <<"l","a","t","r","i","n","e">>)}

\* the positions of the columns named as a longitude
NamedLng(keys) ==
  {i \in DOMAIN keys :
     \/ includes(toLowerCase(KeyText(keys[i])), <<"l","o","n">>)
     \/ includes(toLowerCase(KeyText(keys[i])), <<"l","n","g">>)}

\* some name-matched column has a score of at least 0.25
NamedQualifies(sc, named) == \E i \in named : 100 * sc[i][1] >= 25 * sc[i][2]

\* C13: the latitude column is a name-matched column of highest latitude
\* score when that score is at least 0.25, else a column of highest
\* latitude score over all columns when that score is at least 0.65, else
\* none; the score is the fraction of the parsed values of the first
\* min(1200, n) rows that lie in the band (32.0 .. 35.9 for latitude,
\* 34.0 .. 37.9 for longitude, by which a qualifying name-matched longitude
\* column is picked), and 0 when nothing parses.
C13_LatitudeColumnAsStated ==
  hist.op = "built" =>
    IF Len(raw) = 0 THEN coordsMeta.latKey = NULL
    ELSE /\ PickedAsStated(ObjectKeys(raw[1]) \o <<>>, StatedScores(raw, 320, 359),
                           NamedLat(ObjectKeys(raw[1])), coordsMeta.latKey)
         /\ NamedQualifies(StatedScores(raw, 340, 379), NamedLng(ObjectKeys(raw[1])))
              => PickedAsStated(ObjectKeys(raw[1]) \o <<>>,
                                StatedScores(raw, 340, 379),
                                NamedLng(ObjectKeys(raw[1])), coordsMeta.lngKey)

\* the name match "Latitude" of score 1/2 was taken, which the column
\* "Cadaster" of score 1 did not displace
C13_Witness ==
  /\ hist.op = "built"
  /\ Len(raw) = 2
  /\ coordsMeta.latKey = "Latitude"
  /\ Get(raw[1], "Latitude") = Num(33) /\ Get(raw[2], "Latitude") = Num(36)
  /\ Get(raw[1], "Cadaster") = Num(33) /\ Get(raw[2], "Cadaster") = Num(33)

\* C14: whenever both axes are resolved, the latitude column and the
\* longitude column are different columns.
C14_AxesAreDifferentColumns ==
  (hist.op = "built" /\ coordsMeta.latKey # NULL /\ coordsMeta.lngKey # NULL)
    => coordsMeta.latKey # coordsMeta.lngKey

\* both axes were resolved
C14_Witness ==
  /\ hist.op = "built"
  /\ coordsMeta.latKey # NULL
  /\ coordsMeta.lngKey # NULL

(***************************************************************************)
(* Coordinate index                                                        *)
(***************************************************************************)
\* the trimmed identifier of a record
IdOf(r) == trim(StringOf(Get(r, coordsMeta.pcodeKey)))

\* the records whose identifier is not empty and whose two axis values parse
Mappable ==
  {i \in 1..Len(raw) :
     /\ IdOf(raw[i]) # <<>>
     /\ parseCoordinate(Get(raw[i], coordsMeta.latKey)).t = "num"
     /\ parseCoordinate(Get(raw[i], coordsMeta.lngKey)).t = "num"}

\* the {lat, lng} of record i, read from the two selected columns
PointOf(i) ==
  [lat |-> parseCoordinate(Get(raw[i], coordsMeta.latKey)).n,
   lng |-> parseCoordinate(Get(raw[i], coordsMeta.lngKey)).n]

\* C15: when the latitude or the longitude column is not resolved (as for
\* an empty row set) the coordinate index is empty and coordsMeta.mapped is
\* 0, and every stored point was read from the two selected columns of a
\* record with that identifier.
C15_NoAxisNoIndex ==
  hist.op = "built" =>
    /\ Len(raw) = 0 => coordsMeta.latKey = NULL /\ coordsMeta.lngKey = NULL
    /\ (coordsMeta.latKey = NULL \/ coordsMeta.lngKey = NULL)
         => (coordsByPcode = <<>> /\ coordsMeta.mapped = 0)
    /\ \A e \in DOMAIN coordsByPcode :
         /\ coordsMeta.latKey # NULL /\ coordsMeta.lngKey # NULL
         /\ \E i \in Mappable :
              IdOf(raw[i]) = coordsByPcode[e][1] /\ PointOf(i) = coordsByPcode[e][2]

\* the latitude column is not resolved although a record has an identifier
\* and numbers in "Latitude" and "Longitude": nothing is stored
C15_Witness ==
  /\ hist.op = "built"
  /\ coordsMeta.latKey = NULL
  /\ coordsMeta.lngKey = "Longitude"
  /\ \E i \in 1..Len(raw) :
       /\ trim(StringOf(Get(raw[i], "PCode"))) # <<>>
       /\ Get(raw[i], "Latitude").t = "num"
       /\ Get(raw[i], "Longitude").t = "num"
  /\ coordsByPcode = <<>>

\* C16: when both axes are resolved, the index has a key p exactly when
\* some record has the non-empty trimmed identifier p and two axis values
\* that parse, and p's value is the {lat, lng} of the last such record.
C16_IndexAsStated ==
  (hist.op = "built" /\ coordsMeta.latKey # NULL /\ coordsMeta.lngKey # NULL) =>
    /\ {coordsByPcode[e][1] : e \in DOMAIN coordsByPcode}
         = {IdOf(raw[i]) : i \in Mappable}
    /\ \A e, f \in DOMAIN coordsByPcode :
         coordsByPcode[e][1] = coordsByPcode[f][1] => e = f
    /\ \A e \in DOMAIN coordsByPcode :
         \E i \in Mappable :
           /\ IdOf(raw[i]) = coordsByPcode[e][1]
           /\ \A j \in Mappable : IdOf(raw[j]) = IdOf(raw[i]) => j <= i
           /\ coordsByPcode[e][2] = PointOf(i)

\* two records with the same identifier and different longitudes were
\* mapped, and the index holds the second one's point
C16_Witness ==
  /\ hist.op = "built"
  /\ Len(raw) = 2
  /\ Mappable = {1, 2}
  /\ IdOf(raw[1]) = IdOf(raw[2])
  /\ PointOf(1) # PointOf(2)
  /\ Len(coordsByPcode) = 1
  /\ coordsByPcode[1][2] = PointOf(2)

(***************************************************************************)
(* Normalized records                                                      *)
(***************************************************************************)
\* the trimmed text of a raw cell
Trimmed(v) == trim(StringOf(v))

\* C17: for every raw row, assessed is true iff the trimmed phone-call
\* status is not empty; siteStatus is the trimmed Site Status when that is
\* not empty, else "Not recorded" when assessed, else "Not assessed";
\* phoneStatus is the trimmed phone-call status when assessed, else "Not
\* assessed"; district and cadaster are the trimmed raw value, or the
\* sentinel when blank.
C17_DerivedFieldsAsStated ==
  hist.op = "parsed" =>
    /\ Len(raw) = Len(given)
    /\ \A i \in 1..Len(given) :
         LET phone    == Trimmed(Get(given[i], "Phone call status"))
             site     == Trimmed(Get(given[i], "Site Status"))
             district == Trimmed(Get(given[i], "District"))
             cadaster == Trimmed(Get(given[i], "Cadaster"))
             assessed == phone # <<>>
         IN /\ Get(raw[i], "__assessed") = Bool(assessed)
            /\ Get(raw[i], "__siteStatus")
                 = Txt(IF site # <<>> THEN site
                       ELSE IF assessed THEN NOT_RECORDED ELSE NOT_ASSESSED)
            /\ Get(raw[i], "__phoneStatus")
                 = Txt(IF assessed THEN phone ELSE NOT_ASSESSED)
            /\ Get(raw[i], "__district")
                 = Txt(IF district # <<>> THEN district ELSE EMDASH)
            /\ Get(raw[i], "__cadaster")
                 = Txt(IF cadaster # <<>> THEN cadaster ELSE EMDASH)

\* an assessed row with a blank Site Status, a padded district and a blank
\* cadaster was normalized
C17_Witness ==
  /\ hist.op = "parsed"
  /\ Len(raw) = 1
  /\ Get(given[1], "Phone call status") = Txt(<<" ","A","n","s"," ">>)
  /\ Get(given[1], "Site Status") = Txt(<<>>)
  /\ Get(raw[1], "__siteStatus") = Txt(NOT_RECORDED)
  /\ Get(raw[1], "__phoneStatus") = Txt(<<"A","n","s">>)
  /\ Get(raw[1], "__district") = Txt(<<"B">>)
  /\ Get(raw[1], "__cadaster") = Txt(EMDASH)

\* a cell is boolean-true: true, the number 1, or the text yes, true or 1
\* in any case
BooleanTrue(v) ==
  \/ v = Bool(TRUE)
  \/ v = Num(1)
  \/ /\ v.t = "text"
     /\ toLowerCase(trim(v.s)) \in {<<"y","e","s">>, <<"t","r","u","e">>, <<"1">>}

\* the labels of the rules whose column is boolean-true in row r, in the
\* order of the rules
TrueRuleLabels(r) ==
  LET hit == SelectSeq(QC_RULES, LAMBDA rule : BooleanTrue(Get(r, rule.col)))
  IN [j \in 1..Len(hit) |-> hit[j].label]

StatedKey(r) ==
  LET v == Get(r, hist.kind)
  IN IF v.t = "text" /\ v.s # <<>> THEN v.s ELSE EMDASH

\* C19: countBy and groupSum return an empty mapping for an empty sequence
\* and a mapping of one entry for a sequence of one record; the keys of the
\* mapping are keyFn(record), or the sentinel where keyFn(record) is falsy,
\* over the records; the input records are left as they were.
C19_AggregationAsStated ==
  hist.op \in {"counted", "summed"} =>
    /\ Len(raw) = 0 => produced = <<>>
    /\ Len(raw) = 1 => Len(produced) = 1
    /\ {produced[i][1] : i \in 1..Len(produced)}
         = {StatedKey(raw[i]) : i \in 1..Len(raw)}
    /\ raw = parseWorkbook(given)

\* one record whose cadaster is the text __proto__ was counted, and the
\* mapping has no entry
C19_Witness ==
  /\ hist.op = "counted"
  /\ hist.kind = "__cadaster"
  /\ Len(raw) = 1
  /\ Get(raw[1], "__cadaster") = Txt(PROTO)
  /\ produced = <<>>

(***************************************************************************)
(* CSV                                                                     *)
(***************************************************************************)
RECURSIVE CsvScan(_, _, _, _, _, _)
\* a CSV reader: fields are separated by commas and records by a line
\* break (LF, or CR LF); a field that opens with a quote runs to its closing
\* quote, two quotes inside it standing for one
CsvScan(s, i, quoted, field, rec, recs) ==
  IF i > Len(s) THEN Append(recs, Append(rec, field))
  ELSE IF quoted THEN
    IF s[i] = QUOTE
      THEN IF i < Len(s) /\ s[i + 1] = QUOTE
             THEN CsvScan(s, i + 2, TRUE, Append(field, QUOTE), rec, recs)
             ELSE CsvScan(s, i + 1, FALSE, field, rec, recs)
      ELSE CsvScan(s, i + 1, TRUE, Append(field, s[i]), rec, recs)
  ELSE IF s[i] = QUOTE /\ field = <<>>
    THEN CsvScan(s, i + 1, TRUE, field, rec, recs)
  ELSE IF s[i] = COMMA
    THEN CsvScan(s, i + 1, FALSE, <<>>, Append(rec, field), recs)
  ELSE IF s[i] = LF
    THEN CsvScan(s, i + 1, FALSE, <<>>, <<>>, Append(recs, Append(rec, field)))
  ELSE IF s[i] = CR /\ i < Len(s) /\ s[i + 1] = LF
    THEN CsvScan(s, i + 2, FALSE, <<>>, <<>>, Append(recs, Append(rec, field)))
  ELSE CsvScan(s, i + 1, FALSE, Append(field, s[i]), rec, recs)

ParseCsv(s) == CsvScan(s, 1, FALSE, <<>>, <<>>, <<>>)

\* a field as the statement writes it
StatedField(f) ==
  IF \E i \in 1..Len(f) : f[i] \in {QUOTE, COMMA, LF}
    THEN <<QUOTE>>
         \o [k \in 1..(Len(f) + Cardinality({i \in 1..Len(f) : f[i] = QUOTE})) |->
               LET i == CHOOSE i \in 1..Len(f) :
                          k \in { i + Cardinality({h \in 1..(i - 1) : f[h] = QUOTE}),
                                  i + Cardinality({h \in 1..i : f[h] = QUOTE}) }
               IN f[i]]
         \o <<QUOTE>>
    ELSE f

\* C20 (first half): every field is written in quotes with its quotes
\* doubled exactly when it holds a quote, a comma or a line feed, and as it
\* is otherwise, fields joined by commas and lines by line feeds.
C20_FieldsWrittenAsStated ==
  hist.op = "csv" =>
    produced =
      JoinWith(<< JoinWith([j \in 1..Len(CsvColumns) |->
                              StatedField(NameText(CsvColumns[j]))], <<COMMA>>) >>
               \o [i \in 1..Len(given) |->
                     JoinWith([j \in 1..Len(CsvColumns) |->
                                 StatedField(Get(given[i], CsvColumns[j]).s)],
                              <<COMMA>>)],
               <<LF>>)

\* C20: the fields are written as stated, and reading the CSV back gives
\* the header and then, for every row and column, the original field value.
C20_CsvRoundTrip ==
  hist.op = "csv" =>
    /\ C20_FieldsWrittenAsStated
    /\ LET back == ParseCsv(produced)
       IN /\ Len(back) = Len(given) + 1
          /\ \A i \in 1..Len(given) :
               /\ Len(back[i + 1]) = Len(CsvColumns)
               /\ \A j \in 1..Len(CsvColumns) :
                    back[i + 1][j] = Get(given[i], CsvColumns[j]).s

\* a row whose last field ends in a carriage return was written before
\* another row, and the field read back has lost it
C20_Witness ==
  /\ hist.op = "csv"
  /\ Len(given) = 2
  /\ Get(given[1], "Local Name") = Txt(<<"x", CR>>)
  /\ Len(ParseCsv(produced)) = 3
  /\ ParseCsv(produced)[2][2] = <<"x">>

(***************************************************************************)
(* Startup                                                                 *)
(***************************************************************************)
\* init() reaches its sample block in this step: at once when it makes no
\* live-mode attempt, else when the attempt it awaited has ended
InitPastLiveBlock ==
  \/ ~booted /\ booted' /\ \A u \in tasks' : u.kind # "boot"
  \/ /\ \E t \in tasks : t.kind = "boot"
     /\ \A u \in tasks' : u.kind # "boot"

\* C22 (first half): opened with noSample=1 and live mode neither saved nor
\* forced, startup starts no load and leaves state.raw empty.
C22_NoSampleNoLoad ==
  [][(~booted /\ booted' /\ query.noSample = <<"1">>
        /\ ~storedLive /\ query.live # <<"1">>)
       => (tasks' = {} /\ raw' = <<>>)]_vars

\* C22: as above, and without noSample startup starts the load of the
\* sample, unless its live-mode load has produced data.
C22_StartupSample ==
  /\ C22_NoSampleNoLoad
  /\ [][(query.noSample # <<"1">> /\ InitPastLiveBlock)
          => \/ \E u \in tasks' \ tasks : u.kind = "bootSample"
             \/ hist'.op = "loaded" /\ hist'.kind = "boot" /\ Len(raw') > 0]_vars

\* startup's live-mode attempt has ended without loading anything, the page
\* was opened without noSample, and no load of the sample was started: the
\* records on the page come from a file chosen meanwhile
C22_Witness ==
  /\ query.noSample # <<"1">>
  /\ hist.kind = "boot"
  /\ hist.op \in {"failed", "refused"}
  /\ \A u \in tasks : u.kind \notin {"boot", "bootSample"}
  /\ Len(raw) > 0

(***************************************************************************)
(* Live mode and the refresh timer                                         *)
(***************************************************************************)
\* C23: when loadFromFile has completed successfully, live mode is off, the
\* source URL is empty, there is no refresh timer (state.refreshTimer is
\* null and no interval is left running) and state.refreshEveryMs is 0.
C23_FileLoadEndsLiveAndRefresh ==
  (hist.op = "loaded" /\ hist.kind = "file") =>
    /\ ~liveMode
    /\ sourceUrl = ""
    /\ refreshTimer = 0
    /\ timers = {}
    /\ refreshEveryMs = 0

\* a file was loaded after a live-mode load had set the timer, while live
\* mode was on
C23_Witness ==
  /\ hist.op = "loaded"
  /\ hist.kind = "file"
  /\ hist.loadsDone = 2
  /\ apiStatus = "Live mode off (manual file loaded)."
  /\ refreshTimer = 0

\* the handlers that run enableLiveMode(true): the toggle, and init
LiveKinds == {"live", "boot"}

\* C24: a load of the spreadsheet by enableLiveMode(true) begins only in the
\* step in which its status check succeeded; and the step in which the
\* status check fails leaves live mode off, in the state and in the store,
\* and state.raw, state.sourceUrl and the refresh timer as they were (as
\* does the step that starts the check).
C24_StatusCheckedFirst ==
  /\ [][\A u \in tasks' :
          (u.kind \in LiveKinds /\ u.pc = "fetch" /\ u \notin tasks)
            => /\ \E t \in tasks : t.id = u.id /\ t.kind = u.kind /\ t.pc = "status"
               /\ hist'.op = "step"
               /\ apiStatus' = "API connected"]_vars
  /\ [][(hist'.op = "refused" /\ hist'.kind \in LiveKinds)
          => /\ ~liveMode'
             /\ ~storedLive'
             /\ raw' = raw
             /\ sourceUrl' = sourceUrl
             /\ refreshTimer' = refreshTimer
             /\ timers' = timers]_vars
  /\ [][(\E u \in tasks' \ tasks : u.kind \in LiveKinds /\ u.pc = "status")
          => /\ raw' = raw
             /\ sourceUrl' = sourceUrl
             /\ refreshTimer' = refreshTimer
             /\ timers' = timers]_vars

\* the status check of the live toggle failed on a page that shows the
\* records of a manual URL and refreshes them on a timer
C24_Witness ==
  /\ hist.op = "refused"
  /\ hist.kind = "live"
  /\ ~liveMode
  /\ ~storedLive
  /\ Len(raw) > 0
  /\ sourceUrl = MANUAL_URL
  /\ refreshTimer # 0

\* C25: whenever live mode is off and no load is in progress, no refresh
\* timer polls the API endpoint: state.refreshTimer is null, or
\* state.sourceUrl is not the API endpoint.
C25_NoApiPollingWhenLiveOff ==
  (~liveMode /\ Loading = {}) =>
    (refreshTimer = 0 \/ sourceUrl # API_XLSX_ENDPOINT)

\* a live-mode load has completed after a file load that completed while it
\* was in flight: live mode is off, nothing is loading, and the timer polls
\* the API endpoint
C25_Witness ==
  /\ hist.op = "loaded"
  /\ hist.kind = "live"
  /\ hist.loadsDone = 2
  /\ hist.gestures = 0
  /\ ~liveMode
  /\ tasks = {}
  /\ \E timer \in timers : timer.id = refreshTimer /\ timer.url = API_XLSX_ENDPOINT
  /\ sourceUrl = API_XLSX_ENDPOINT

\* C26: at every moment at most one refresh interval runs, the one that
\* state.refreshTimer names, and it runs with a period of max(1, configured
\* minutes) minutes, so never with less than one minute (periods in seconds).
C26_OneTimerOfAtLeastAMinute ==
  /\ Cardinality(timers) <= 1
  /\ \A timer \in timers :
       /\ timer.id = refreshTimer
       /\ timer.ms >= 60
       /\ timer.ms = refreshEveryMs

\* the interval was set for 35792 minutes and runs with no delay at all
C26_Witness ==
  /\ refreshMinutes = Txt(<<"3","5","7","9","2">>)
  /\ refreshEveryMs = 35792 * 60
  /\ \E timer \in timers : timer.id = refreshTimer /\ timer.ms = 0

(***************************************************************************)
(* The loading overlay                                                     *)
(***************************************************************************)
\* C27: the loading overlay is never left visible when no load is in
\* progress: once every load attempt has ended, by success or by failure and
\* whichever handler started it, the overlay is hidden.
C27_OverlayHiddenWhenIdle == Loading = {} => ~overlay

\* a refresh tick has failed, nothing is loading, and the overlay is still
\* shown
C27_Witness ==
  /\ hist.op = "failed"
  /\ hist.kind = "tick"
  /\ tasks = {}
  /\ overlay

(***************************************************************************)
(* The QC criterion                                                        *)
(***************************************************************************)
\* the records kept under setting c of the QC criterion
KeptUnder(c) == produced[CHOOSE i \in 1..Len(produced) : produced[i][1] = c][2]

\* how often record r occurs in sequence s
Occurrences(s, r) == Cardinality({i \in 1..Len(s) : s[i] = r})

\* C28: every normalized record has qcAny "Yes" or "No", "Yes" exactly when
\* the trimmed raw value is "Yes"; and once all three settings of the QC
\* criterion have been applied to the same records under the same other
\* criteria, no record is kept under both "Any issue" and "No issues", and
\* every record is kept under "All" as often as under the two together.
C28_QcSplitsTheRecords ==
  /\ \A i \in 1..Len(raw) :
       /\ Get(raw[i], "__qcAny").s \in {YES, NO}
       /\ Get(raw[i], "__qcAny").s = YES
            <=> Trimmed(Get(given[i], "QC - Any issue")) = YES
  /\ Len(produced) = 3 =>
       /\ \A r \in {raw[i] : i \in 1..Len(raw)} :
            /\ Occurrences(KeptUnder(ALL), r)
                 = Occurrences(KeptUnder(ANY_ISSUE), r)
                   + Occurrences(KeptUnder(NO_ISSUES), r)
            /\ ~(Occurrences(KeptUnder(ANY_ISSUE), r) > 0
                   /\ Occurrences(KeptUnder(NO_ISSUES), r) > 0)
       /\ Len(KeptUnder(ALL))
            = Len(KeptUnder(ANY_ISSUE)) + Len(KeptUnder(NO_ISSUES))

\* the three settings were applied to a record with " Yes " and a record
\* with "yes": one is kept under "Any issue", the other under "No issues"
C28_Witness ==
  /\ Len(produced) = 3
  /\ Len(raw) = 2
  /\ Get(given[1], "QC - Any issue") = Txt(<<" ","Y","e","s"," ">>)
  /\ Get(given[2], "QC - Any issue") = Txt(<<"y","e","s">>)
  /\ KeptUnder(ANY_ISSUE) = <<raw[1]>>
  /\ KeptUnder(NO_ISSUES) = <<raw[2]>>
  /\ KeptUnder(ALL) = raw

(***************************************************************************)
(* The counts of the coordinate index                                      *)
(***************************************************************************)
\* C29: after the index is built from the loaded records, coordsMeta.total
\* is the number of records, coordsMeta.mapped is at most coordsMeta.total,
\* and coordsMeta.mapped is the number of entries of state.coordsByPcode.
C29_CountsMatchIndex ==
  hist.op = "built" =>
    /\ coordsMeta.total = Len(raw)
    /\ coordsMeta.mapped <= coordsMeta.total
    /\ coordsMeta.mapped = Len(coordsByPcode)

\* two mappable records with the same identifier: one entry, counted twice
C29_Witness ==
  /\ hist.op = "built"
  /\ Len(raw) = 2
  /\ IdOf(raw[1]) = IdOf(raw[2])
  /\ Len(coordsByPcode) = 1
  /\ coordsMeta.mapped = 2

(***************************************************************************)
(* The API                                                                 *)
(***************************************************************************)
\* C21: every answered invocation whose method is not GET has status 405
\* and sent no upstream request; and every answered GET during which
\* something failed (configuration missing, token request failed, an
\* upstream call answered with an HTTP error or did not answer) has status
\* 500 and a JSON body with ok false, never a success.
C21_FailuresAnswered500 ==
  \A c \in calls :
    c.pc = "done" =>
      /\ c.method # "GET" => (c.status = 405 /\ c.upstream = 0)
      /\ (c.method = "GET" /\ c.failed) => (c.status = 500 /\ c.ok = "false")

\* the status endpoint has answered 200 with ok true although its one
\* upstream call, the HEAD of the direct URL, failed
C21_Witness ==
  \E c \in calls :
    /\ c.pc = "done"
    /\ c.endpoint = "status"
    /\ c.method = "GET"
    /\ c.upstream = 1
    /\ c.failed
    /\ c.status = 200
    /\ c.ok = "true"

\* getAccessToken hands a token to invocation c1 in this step
TokenHanded(c0, c1) ==
  c0.id = c1.id /\ c0.token = NoToken /\ c1.token # NoToken

\* C30: getAccessToken returns the cached token only when the time is more
\* than 60 s before the cached expiry, and otherwise requests a new one; a
\* new token is stored with expiry = request time + expires_in seconds; a
\* failed or malformed token response ends in an error with the cache as it
\* was; and the token returned from the cache is more than 60 s before the
\* end of the lifetime its response gave it.
C30_TokenCacheAsStated ==
  /\ [][hist'.op = "tokenCached" =>
          /\ now < tokenCache.expiresAtMs - 60000
          /\ tokenCache' = tokenCache
          /\ \E c1 \in calls' \ calls :
               /\ c1.token # NoToken
               /\ c1.token = tokenCache.accessToken
               /\ (c1.token.expiresIn # Undef =>
                     now < c1.token.at + c1.token.expiresIn.n * 1000 - 60000)]_vars
  /\ [][hist'.op = "tokenAsked" =>
          \/ tokenCache.accessToken = NoToken
          \/ now >= tokenCache.expiresAtMs - 60000]_vars
  /\ [][hist'.op = "tokenFresh" =>
          \E c0 \in calls, c1 \in calls' :
            /\ TokenHanded(c0, c1)
            /\ tokenCache'.accessToken = c1.token
            /\ (c1.token.expiresIn # Undef =>
                  tokenCache'.expiresAtMs = c0.at + c1.token.expiresIn.n * 1000)]_vars
  /\ [][hist'.op = "tokenFailed" =>
          /\ tokenCache' = tokenCache
          /\ \E c0 \in calls, c1 \in calls' :
               /\ c0.id = c1.id /\ c0.pc = "token"
               /\ c1.pc = "done" /\ c1.status = 500 /\ c1.token = NoToken]_vars

\* a token whose response said expires_in 0 was handed out from the cache
\* 30 s after it was requested
C30_Witness ==
  /\ hist.op = "tokenCached"
  /\ now = 30000
  /\ tokenCache.accessToken.expiresIn = Num(0)
  /\ tokenCache.accessToken.at = 0
  /\ tokenCache.expiresAtMs = 3600000
  /\ \E c \in calls : c.id = 2 /\ c.token = tokenCache.accessToken

====
